---- MODULE Spec2Model ----
(***************************************************************************)
(* Model of the quantum-advantage calculator: the crossover search of      *)
(* Models.vue (getQuantumAdvantage, calculateCurrentAdvantage,             *)
(* calculateQuantumEconomicAdvantage) and the debounced watcher that       *)
(* triggers it.                                                            *)
(*                                                                         *)
(* Numbers are JavaScript numbers: a finite value, +Infinity, -Infinity    *)
(* or NaN; null and undefined are kept apart because arithmetic coerces    *)
(* them differently.  Finite logarithms are fixed-point, in thousandths    *)
(* (log10(2) = 301).  A problem size is a point of the size grid: the 51   *)
(* pre-scan points 2, 2.5, ..., 27 followed by the decades 10^2 .. 10^100. *)
(***************************************************************************)
EXTENDS Integers, Sequences, FiniteSets, TLC

VARIABLES
    qaArgs,     \* the arguments of the getQuantumAdvantage call under study
    qaRet,      \* what the last getQuantumAdvantage call returned
    qaEval,     \* the last call of its inner evaluate(n): the point and the value
    heap,       \* the model objects: reference -> current contents
    propsModel, \* props.model: a reference, 0 for null
    mounted,    \* the component is mounted
    debounceTimer,  \* the timer id held by debounceTimer, 0 for null
    timers,     \* the scheduled timeouts: id, captured newModel, age in ms
    rafQueue,   \* the animation-frame callbacks not yet run, oldest first
    frameRunning,   \* a frame is running its callbacks, some are still to run
    currentAdvantageData,
    quantumEconomicAdvantageData,
    roadmapCharacteristicsData,
    reqCount,   \* number of watcher invocations so far
    sinceChange,    \* ms since the last watcher invocation, capped at the window
    gapShort,   \* requests followed by another one inside the quiet window
    fired,      \* requests whose timeout callback has run
    nullReqs,   \* requests whose captured newModel is null
    runs,       \* request -> number of calculation passes started for it
    lastPass,   \* the last calculation pass: request, model and outcomes
    passLog,    \* the runs of calculateQuantumEconomicAdvantage: model and result
    calcModel,  \* the model handed to the two calculations run on their own
    calcCurrent,    \* what calculateCurrentAdvantage used and published for it
    calcEconomic,   \* what calculateQuantumEconomicAdvantage used and published for it
    formulaText,    \* a formula text: its characters, or NullFormula
    converted,  \* what convertToMathjs returned for it
    penaltyBuilt,   \* the text the calculations build the penalty function from
    algorithms, \* the list handed to getBestAlgorithm, as the call leaves it
    bestCall,   \* what getBestAlgorithm returned for it
    store,      \* the models store: models, nextId and the nested objects
    removedIds, \* the ids of the models removed so far
    storeCall,  \* the last store call: its arguments, result and the store before
    edits,      \* number of updating calls so far
    variants,   \* the entry of algorithmVariants for Integer Factorization
    formMounted,    \* onMounted of the form has run
    formModel,  \* model.value of the form, Null before it is loaded
    selectedProblem,
    selectedAlgorithm,  \* selectedClassicalAlgorithm and selectedQuantumAlgorithm
    isUpdatingFromAlgorithm,
    watched,    \* the values the watchers of the three selections saw last
    jobs,       \* the watcher jobs queued, first to run first
    tickCallbacks,  \* the nextTick callbacks not yet run
    dialog,     \* the runtime dialog: open, its inputs, selections and error flags
    typed,      \* number of texts typed into the dialog so far
    formEvents, \* number of user events of the form so far
    algRun,     \* the last run of an algorithm watcher
    problemRun, \* the last problem change applied by the selectedProblem watcher
    saveRun,    \* the last save of the dialog
    syncRun,    \* the store before and after the last sync of the form
    curvePoint, \* a sample point: what the converted functions give there
    curveSteps  \* the four curve values published for it

qaVars == <<qaArgs, qaRet, qaEval>>
outVars == <<currentAdvantageData, quantumEconomicAdvantageData, roadmapCharacteristicsData>>
ghostVars == <<reqCount, sinceChange, gapShort, fired, nullReqs, runs, lastPass, passLog>>
watchVars == <<heap, propsModel, mounted, debounceTimer, timers, rafQueue, frameRunning,
               outVars, ghostVars>>
calcVars == <<calcModel, calcCurrent, calcEconomic>>
convVars == <<formulaText, converted, penaltyBuilt>>
bestVars == <<algorithms, bestCall>>
pureVars == <<calcVars, convVars, bestVars>>
storeVars == <<store, removedIds, storeCall, edits>>
formVars == <<variants, formMounted, formModel, selectedProblem, selectedAlgorithm,
             isUpdatingFromAlgorithm, watched, jobs, tickCallbacks, dialog, typed,
             formEvents, algRun, problemRun, saveRun, syncRun>>
curveVars == <<curvePoint, curveSteps>>
lateVars == <<storeVars, formVars, curveVars>>
vars == <<qaVars, watchVars, pureVars, curveVars, lateVars>>

(***************************************************************************)
(* JavaScript values                                                       *)
(***************************************************************************)
Fin(x) == [k |-> "fin", v |-> x]
PosInf == [k |-> "inf", v |-> 1]
NegInf == [k |-> "inf", v |-> -1]
NaN == [k |-> "nan", v |-> 0]
Null == [k |-> "null", v |-> 0]
Undefined == [k |-> "undef", v |-> 0]
Throw == [k |-> "throw", v |-> 0]
NotCalled == [k |-> "none", v |-> 0]

JsValue == [k : {"fin", "inf", "nan", "null", "undef", "throw", "none", "size"}, v : Int]

\* ToNumber coercion of an operand of an arithmetic operator
ToNumOf[a \in JsValue] ==
    CASE a.k = "null" -> Fin(0)
      [] a.k = "undef" -> NaN
      [] OTHER -> a

ToNum(a) == ToNumOf[a]

IsFinite(a) == a.k = "fin"

\* the operators below are functions of their operands' values: an operand
\* is evaluated once, then coerced
JsAddNum[a \in JsValue, b \in JsValue] ==
    CASE a.k = "nan" \/ b.k = "nan" -> NaN
      [] a.k = "inf" /\ b.k = "inf" -> IF a.v = b.v THEN a ELSE NaN
      [] a.k = "inf" -> a
      [] b.k = "inf" -> b
      [] OTHER -> Fin(a.v + b.v)

JsAdd(a0, b0) == JsAddNum[ToNum(a0), ToNum(b0)]

JsNegNum[a \in JsValue] ==
    CASE a.k = "nan" -> NaN
      [] a.k = "inf" -> [k |-> "inf", v |-> 0 - a.v]
      [] OTHER -> Fin(0 - a.v)

JsNeg(a0) == JsNegNum[ToNum(a0)]

JsSub(a, b) == JsAdd(a, JsNeg(b))

\* i * a for a plain integer i (a count of years)
JsMulIntNum[i \in Int, a \in JsValue] ==
    CASE a.k = "nan" -> NaN
      [] a.k = "inf" -> IF i = 0 THEN NaN
                        ELSE [k |-> "inf", v |-> IF i > 0 THEN a.v ELSE 0 - a.v]
      [] OTHER -> Fin(i * a.v)

JsMulInt(i, a0) == JsMulIntNum[i, ToNum(a0)]

\* a > 0 and a < 0 as JavaScript evaluates them (false for NaN)
JsSign[a \in JsValue] ==
    IF a.k \in {"fin", "inf"} THEN (IF a.v > 0 THEN 1 ELSE IF a.v < 0 THEN -1 ELSE 0)
    ELSE 0

JsGtZero(a0) == JsSign[ToNum(a0)] = 1

JsLtZero(a0) == JsSign[ToNum(a0)] = -1

\* Math.max(a, 0)
JsMaxZeroNum[a \in JsValue] ==
    CASE a.k = "nan" -> NaN
      [] JsSign[a] = 1 -> a
      [] OTHER -> Fin(0)

JsMaxZero(a0) == JsMaxZeroNum[ToNum(a0)]

(***************************************************************************)
(* The size grid and Math.log10 on it                                      *)
(***************************************************************************)
PrescanMaxIter == 50
UpperExp == 100
PrescanTop == PrescanMaxIter
GridTop == PrescanTop + (UpperExp - 1)

Log10Table ==
    << 301, 398, 477, 544, 602, 653, 699, 740, 778, 813,
       845, 875, 903, 929, 954, 978, 1000, 1021, 1041, 1061,
       1079, 1097, 1114, 1130, 1146, 1161, 1176, 1190, 1204, 1217,
       1230, 1243, 1255, 1267, 1279, 1290, 1301, 1312, 1322, 1332,
       1342, 1352, 1362, 1371, 1380, 1389, 1398, 1407, 1415, 1423, 1431 >>

\* log10 of grid point g, in thousandths
LogN(g) ==
    IF g < Len(Log10Table) THEN Log10Table[g + 1]
    ELSE (g - Len(Log10Table) + 2) * 1000

Log10Two == LogN(0)

\* log10 of the size 100 that bounds the pre-scan
UpperBoundLog == 2000

\* log10 of a rate given in hundredths (90 is the fraction 0.9)
Log10Rate(f) ==
    CASE f < 0 -> NaN
      [] f = 0 -> NegInf
      [] f = 10 -> Fin(-1000)
      [] f = 77 -> Fin(-114)
      [] f = 90 -> Fin(-46)
      [] f = 100 -> Fin(0)
      [] f = 110 -> Fin(41)
      [] f = 190 -> Fin(279)

(***************************************************************************)
(* Formulas and the functions utils.js builds from them                    *)
(***************************************************************************)
\* formulas the compiler rejects: building a function from them throws
SyntaxErrorFormulas == {"n+"}

createFails(formula) == formula \in SyntaxErrorFormulas

\* createLoggedFunction(formula)(n, scope): log10 of the formula's value at
\* grid point g, with log10(p) = pLog; Throw when the evaluation throws,
\* Undefined when it yields something that is not a number
LoggedValue(formula, g, pLog) ==
    CASE formula = "n" -> Fin(LogN(g))
      [] formula = "n^2" -> Fin(2 * LogN(g))
      [] formula = "n^3" -> Fin(3 * LogN(g))
      [] formula = "n^3/p" -> JsSub(Fin(3 * LogN(g)), pLog)
      [] formula = "n^2*q" -> Fin(3 * LogN(g))
      [] formula = "n^2*(n)" -> Fin(3 * LogN(g))
      [] formula = "1" -> Fin(0)
      [] formula = "10" -> Fin(1000)
      [] formula = "0" -> NegInf
      [] formula = "0/0" -> NaN
      [] formula = "log(-n, 10)" -> Undefined
      [] formula = "f(n)" -> Throw

\* Epsilon-bracket bisection on the size grid: the root is the first grid
\* point of the final bracket at which f is positive
BisectMaxIter == 100

\* the loop's state is <<low, high, iterations>>
BisectLoop(F, low, high) ==
    LET loop[s \in (0..high) \X (0..high) \X (0..BisectMaxIter)] ==
            IF s[2] - s[1] <= 1 \/ s[3] >= BisectMaxIter THEN s[2]
            ELSE LET mid == (s[1] + s[2]) \div 2
                 IN  IF JsGtZero(F[mid]) THEN loop[<<s[1], mid, s[3] + 1>>]
                     ELSE loop[<<mid, s[2], s[3] + 1>>]
    IN  loop[<<low, high, 0>>]

Size(g) == [k |-> "size", v |-> g]

\* utils.bisectionMethod(f, low, high, label) -> root | null
bisectionMethod(F, low, high) ==
    IF JsGtZero(F[low]) THEN Size(low)
    ELSE IF ~JsGtZero(F[high]) THEN Null
    ELSE Size(BisectLoop(F, low, high))

(***************************************************************************)
(* getQuantumAdvantage                                                     *)
(***************************************************************************)
\* the year offset counted from the year before the current one
adjustmentFactorRaw_offByOneYear(hardwareSlowdown, quantumImprovementRate, yearOff) ==
    JsAdd(hardwareSlowdown, JsMulInt(yearOff + 1, Log10Rate(quantumImprovementRate)))

\* lines 28-30
adjustmentFactorRaw(hardwareSlowdown, quantumImprovementRate, yearOff) ==
    JsAdd(hardwareSlowdown, JsMulInt(yearOff, Log10Rate(quantumImprovementRate)))

\* the processors exponent without its floor
effectiveProcessors_noFloor(processors, costImprovementRate, yearOff) ==
    JsAdd(processors, JsMulInt(yearOff, Log10Rate(costImprovementRate)))

\* lines 32-33: log10 of pValue
effectiveProcessors(processors, costImprovementRate, yearOff) ==
    JsMaxZero(JsAdd(processors, JsMulInt(yearOff, Log10Rate(costImprovementRate))))

\* lines 36-51
evaluate(lcf, lqf, lpf, adjustmentFactor, pLog, g) ==
    LET classical == LoggedValue(lcf, g, pLog)
        quantum == LoggedValue(lqf, g, pLog)
        penalty == LoggedValue(lpf, g, pLog)
    IN  IF Throw \in {classical, quantum, penalty} THEN NegInf
        ELSE JsSub(JsSub(JsSub(classical, quantum), penalty), adjustmentFactor)

\* the pre-scan allowed one step more than its cap
PrescanLoop_capPlusOne(F) ==
    LET loop[s \in (0..PrescanTop + 1) \X (0..PrescanMaxIter + 1)] ==
            IF LogN(s[1]) < UpperBoundLog /\ JsLtZero(F[s[1]]) /\ s[2] < PrescanMaxIter + 1
            THEN IF JsGtZero(F[s[1] + 1]) THEN [lowerBound |-> s[1] + 1, iterations |-> s[2]]
                 ELSE loop[<<s[1] + 1, s[2] + 1>>]
            ELSE [lowerBound |-> s[1], iterations |-> s[2]]
    IN  loop[<<0, 0>>]

\* the pre-scan stepping the lower bound by 1.0, over every other grid point
PrescanLoop_skipsPoint(F) ==
    LET loop[s \in (0..PrescanTop) \X (0..PrescanMaxIter)] ==
            IF s[1] + 2 <= PrescanTop /\ JsLtZero(F[s[1]]) /\ s[2] < PrescanMaxIter
            THEN IF JsGtZero(F[s[1] + 2]) THEN [lowerBound |-> s[1] + 2, iterations |-> s[2]]
                 ELSE loop[<<s[1] + 2, s[2] + 1>>]
            ELSE [lowerBound |-> s[1], iterations |-> s[2]]
    IN  loop[<<0, 0>>]

\* lines 57-65: F is evaluate tabulated on the grid; the loop's state is
\* <<lowerBound, iterations>> and lastValue is F[lowerBound]
PrescanLoop(F) ==
    LET loop[s \in (0..PrescanTop) \X (0..PrescanMaxIter)] ==
            IF LogN(s[1]) < UpperBoundLog /\ JsLtZero(F[s[1]]) /\ s[2] < PrescanMaxIter
            THEN IF JsGtZero(F[s[1] + 1]) THEN [lowerBound |-> s[1] + 1, iterations |-> s[2]]
                 ELSE loop[<<s[1] + 1, s[2] + 1>>]
            ELSE [lowerBound |-> s[1], iterations |-> s[2]]
    IN  loop[<<0, 0>>]

\* lines 68-71
QAResultOf(result) ==
    CASE result.k = "null" \/ result = Fin(0) -> Fin(0)
      [] result = PosInf -> PosInf
      [] result.k = "size" -> Fin(LogN(result.v))

\* getQuantumAdvantage returning the 0 sentinel, not log10(lowerBound), when
\* the function is positive at the lower bound
getQuantumAdvantage_zeroAtLowerBound(lcf, lqf, lpf, hardwareSlowdown, quantumImprovementRate, processors, costImprovementRate, yearOff) ==
    LET raw == adjustmentFactorRaw(hardwareSlowdown, quantumImprovementRate, yearOff)
        adjustmentFactor == JsMaxZero(raw)
        pLog == effectiveProcessors(processors, costImprovementRate, yearOff)
        F == [g \in 0..GridTop |-> evaluate(lcf, lqf, lpf, adjustmentFactor, pLog, g)]
        scan == PrescanLoop(F)
        result == bisectionMethod(F, scan.lowerBound, GridTop)
    IN  IF ~IsFinite(raw)
        THEN [ret |-> Fin(0), path |-> "nonfinite", iterations |-> 0, low |-> 0, bis |-> NotCalled]
        ELSE IF JsGtZero(F[0])
        THEN [ret |-> Fin(0), path |-> "immediate", iterations |-> 0, low |-> 0, bis |-> NotCalled]
        ELSE [ret |-> QAResultOf(result), path |-> "bisect", iterations |-> scan.iterations,
              low |-> scan.lowerBound, bis |-> result]

\* The call as a whole.  ret is the returned value; path, iterations, low
\* and bis record which return statement was taken, the pre-scan steps, the
\* lower bound handed to the bisection and the bisection's result.
getQuantumAdvantage(lcf, lqf, lpf, hardwareSlowdown, quantumImprovementRate, processors, costImprovementRate, yearOff) ==
    LET raw == adjustmentFactorRaw(hardwareSlowdown, quantumImprovementRate, yearOff)
        adjustmentFactor == JsMaxZero(raw)
        pLog == effectiveProcessors(processors, costImprovementRate, yearOff)
        F == [g \in 0..GridTop |-> evaluate(lcf, lqf, lpf, adjustmentFactor, pLog, g)]
        scan == PrescanLoop(F)
        result == bisectionMethod(F, scan.lowerBound, GridTop)
    IN  IF ~IsFinite(raw)
        THEN [ret |-> Fin(0), path |-> "nonfinite", iterations |-> 0, low |-> 0, bis |-> NotCalled]
        ELSE IF JsGtZero(F[0])
        THEN [ret |-> Fin(Log10Two), path |-> "immediate", iterations |-> 0, low |-> 0, bis |-> NotCalled]
        ELSE [ret |-> QAResultOf(result), path |-> "bisect", iterations |-> scan.iterations,
              low |-> scan.lowerBound, bis |-> result]

(***************************************************************************)
(* The calculation pass                                                    *)
(***************************************************************************)
CurrentYear == 2026
YearHigh == 3000
YearSpan == YearHigh - CurrentYear

\* utils.percentageToFraction: percent per year to a compounding fraction,
\* in hundredths
percentageToFraction(r) == 100 + r

\* Number(x) || d for a value that is already a number or NaN
NumberOr(x, d) ==
    IF x.k = "nan" \/ x = Fin(0) \/ x.k \in {"null", "undef"} THEN d ELSE x

\* Number(x) || d for a percentage, kept as a plain integer
PercentOr(r, d) == IF r = 0 THEN d ELSE r

\* utils.classifyQubitMapping
classifyQubitMapping(mapping) ==
    CASE mapping = "2^q" -> "exp"
      [] mapping = "2^(2^q)" -> "doubleexp"
      [] mapping = "q" -> "linear"
      [] mapping = "log(q, 2)" -> "log"
      [] OTHER -> "general"

\* utils.replaceVariable(expression, "q", replacement) on the formulas used
replaceVariable(expression, replacement) ==
    IF expression = "n^2*q" THEN
        CASE replacement = "n" -> "n^2*(n)"
          [] replacement = "(2^n)" -> "n^2*((2^n))"
          [] replacement = "(log(n, 2))" -> "n^2*((log(n, 2)))"
    ELSE expression

\* lines 74-83
convertQubits(model, expression) ==
    IF model.qubitToProblemSize = "" THEN expression
    ELSE LET kind == classifyQubitMapping(model.qubitToProblemSize)
         IN  CASE kind = "exp" -> replaceVariable(expression, "(log(n, 2))")
               [] kind = "log" -> replaceVariable(expression, "(2^n)")
               [] kind = "linear" -> replaceVariable(expression, "n")
               [] OTHER -> expression

\* createConvertedFunction(formula)(x, scope): log10 of the formula's value
\* where x is log10 of the size; Throw when the evaluation throws
ConvertedValue(formula, x, pLog) ==
    CASE formula = "n" -> JsMulInt(1, x)
      [] formula = "n^2" -> JsMulInt(2, x)
      [] formula = "n^3" -> JsMulInt(3, x)
      [] formula = "n^3/p" -> JsSub(JsMulInt(3, x), pLog)
      [] formula = "n^2*(n)" -> JsMulInt(3, x)
      [] formula = "1" -> Fin(0)
      [] formula = "10" -> Fin(1000)
      [] formula = "0" -> NegInf
      [] formula = "0/0" -> NaN
      [] formula = "log(-n, 10)" -> Undefined
      [] formula = "f(n)" -> Throw

MinusOne == Fin(-1000)

\* lines 89 and 91: the rates calculateCurrentAdvantage converts
currentParams(model) ==
    [quantumImprovementRate |-> percentageToFraction(PercentOr(model.quantumImprovementRate, 0)),
     costImprovementRate |-> percentageToFraction(PercentOr(model.costImprovementRate, 0))]

\* lines 85-168.  outcome is "skip" for the early return of line 86,
\* "throw" when an exception leaves the function, "ok" when line 160 has
\* published data.
calculateCurrentAdvantage(model) ==
    LET hardwareSlowdown == NumberOr(model.hardwareSlowdown, Fin(0))
        quantumImprovementRate == currentParams(model).quantumImprovementRate
        costFactor == NumberOr(model.costFactor, Fin(1000))
        costImprovementRate == currentParams(model).costImprovementRate
        processors == NumberOr(model.processors, Fin(1000))
        penaltyInput == convertQubits(model, IF model.penaltyInput = "" THEN "0" ELSE model.penaltyInput)
        quantumWork == convertQubits(model, IF model.quantumWork = "" THEN "0" ELSE model.quantumWork)
        built == {model.classicalRuntimeInput, model.quantumRuntimeInput, penaltyInput,
                  model.classicalWork, quantumWork}
        qa == getQuantumAdvantage(model.classicalRuntimeInput, model.quantumRuntimeInput, penaltyInput,
                                  hardwareSlowdown, quantumImprovementRate, processors, costImprovementRate, 0)
        qca == getQuantumAdvantage(model.classicalWork, quantumWork, penaltyInput,
                                   costFactor, costImprovementRate, processors, costImprovementRate, 0)
        advantage == qa.ret
        costAdvantage == qca.ret
        isAdvInfinite == advantage = PosInf
        isCostInfinite == costAdvantage = PosInf
        stepStar == IF isAdvInfinite THEN (IF isCostInfinite THEN MinusOne ELSE Fin(0))
                    ELSE ConvertedValue(model.classicalRuntimeInput, advantage, processors)
        stepCostStar == IF isCostInfinite THEN (IF isAdvInfinite THEN MinusOne ELSE Fin(0))
                        ELSE ConvertedValue(model.classicalWork, costAdvantage, processors)
    IN  IF model.classicalRuntimeInput = "" \/ model.quantumRuntimeInput = ""
        THEN [outcome |-> "skip"]
        ELSE IF \E f \in built : createFails(f)
        THEN [outcome |-> "throw"]
        ELSE IF Throw \in {stepStar, stepCostStar}
        THEN [outcome |-> "throw"]
        ELSE [outcome |-> "ok",
              nStar |-> IF isAdvInfinite THEN MinusOne ELSE advantage,
              stepStar |-> stepStar,
              nCostStar |-> IF isCostInfinite THEN MinusOne ELSE costAdvantage,
              stepCostStar |-> stepCostStar,
              problemName |-> model.problemName]

\* Math.log10 of a physical:logical qubit ratio
Log10Ratio(r) ==
    CASE r = 1000 -> Fin(3000)
      [] r = 3 -> Fin(477)

Log10Three == 477

\* utils.getPhysicalQubits(year, roadmap, extrapolationType): log10 of the
\* qubit count the roadmap projects for the year; the roadmap is given by
\* its fit, log0 at the current year and slope per year
getPhysicalQubits(yearOff, roadmap, extrapolationType) ==
    CASE extrapolationType = "exponential" -> Fin(roadmap.log0 + roadmap.slope * yearOff)

\* getLogicalQubits without the early return of line 268
getLogicalQubits_ratioAlways(yearOff, roadmap, physicalLogicalQubitsRatio, ratioImprovementRate, roadmapUnit, propsExtrapolation) ==
    IF propsExtrapolation = "<null>" THEN Throw
    ELSE JsSub(getPhysicalQubits(yearOff, roadmap, propsExtrapolation),
               JsAdd(Log10Ratio(physicalLogicalQubitsRatio),
                     JsMulInt(yearOff, Log10Rate(ratioImprovementRate))))

\* lines 266-272.  propsExtrapolation is props.model.extrapolationType at the
\* time of the call, "<null>" when props.model is null: reading it throws
getLogicalQubits(yearOff, roadmap, physicalLogicalQubitsRatio, ratioImprovementRate, roadmapUnit, propsExtrapolation) ==
    IF propsExtrapolation = "<null>" THEN Throw
    ELSE LET logOfPhysicalQubits == getPhysicalQubits(yearOff, roadmap, propsExtrapolation)
             adjustedPLQR == JsAdd(Log10Ratio(physicalLogicalQubitsRatio),
                                   JsMulInt(yearOff, Log10Rate(ratioImprovementRate)))
             floored == IF JsGtZero(JsSub(adjustedPLQR, Fin(Log10Three))) THEN adjustedPLQR
                        ELSE IF adjustedPLQR.k = "nan" THEN NaN ELSE Fin(Log10Three)
         IN  IF roadmapUnit = "logical" THEN logOfPhysicalQubits
             ELSE JsSub(logOfPhysicalQubits, floored)

\* lines 274-287, for the linear qubit mapping
getQuantumFeasible(yearOff, roadmap, physicalLogicalQubitsRatio, ratioImprovementRate, qubitToProblemSize, roadmapUnit, propsExtrapolation) ==
    LET logLogicalQubits == getLogicalQubits(yearOff, roadmap, physicalLogicalQubitsRatio,
                                             ratioImprovementRate, roadmapUnit, propsExtrapolation)
        kind == classifyQubitMapping(qubitToProblemSize)
    IN  CASE kind = "linear" -> logLogicalQubits

RadiusFloor == 5
RadiusCap == 100

\* yearRadius without the cap of line 210
yearRadius_noCap(tStar, tCostStar) ==
    LET validTStar == tStar.k = "size" /\ tStar.v + CurrentYear # 0
        validTCostStar == tCostStar.k = "size" /\ tCostStar.v + CurrentYear # 0
        raw == IF validTStar /\ validTCostStar
               THEN (IF tStar.v > tCostStar.v THEN tStar.v ELSE tCostStar.v) + 5
               ELSE IF validTStar THEN tStar.v + 5
               ELSE IF validTCostStar THEN tCostStar.v + 5
               ELSE 5
    IN  IF raw < 5 THEN 5 ELSE raw

\* lines 198-211, in years; tStar and tCostStar are bisection results
yearRadius(tStar, tCostStar) ==
    LET validTStar == tStar.k = "size" /\ tStar.v + CurrentYear # 0
        validTCostStar == tCostStar.k = "size" /\ tCostStar.v + CurrentYear # 0
        raw == IF validTStar /\ validTCostStar
               THEN (IF tStar.v > tCostStar.v THEN tStar.v ELSE tCostStar.v) + 5
               ELSE IF validTStar THEN tStar.v + 5
               ELSE IF validTCostStar THEN tCostStar.v + 5
               ELSE 5
        capped == IF raw > 100 THEN 100 ELSE raw
    IN  IF capped < 5 THEN 5 ELSE capped

\* x || Infinity for a bisection result, as a year
YearOrInfinity(t) == IF t.k = "size" /\ t.v + CurrentYear # 0 THEN Fin(t.v + CurrentYear) ELSE PosInf

\* lines 175-177: the rates calculateQuantumEconomicAdvantage converts
economicParams(model) ==
    [ratioImprovementRate |-> percentageToFraction(PercentOr(model.ratioImprovementRate, -10)),
     quantumImprovementRate |-> percentageToFraction(PercentOr(model.quantumImprovementRate, -10)),
     costImprovementRate |-> percentageToFraction(PercentOr(model.costImprovementRate, -10))]

\* lines 213-217: the offsets from the current year of the sampled years
\* currentYear + k * yearRadius / 50 that are whole years
SampledYears(radius) == {y \in 0..radius : (y * 50) % radius = 0}

\* lines 220-223: safeMap, a non-finite value is drawn at the ceiling 100
SafeCeiling == Fin(100000)

safeMap(val) == IF IsFinite(val) THEN val ELSE SafeCeiling

\* lines 170-264.  outcome as for calculateCurrentAdvantage; econ is the
\* value published to quantumEconomicAdvantageData, roadmapData the one
\* published to roadmapCharacteristicsData.
calculateQuantumEconomicAdvantage(model, propsExtrapolation) ==
    LET hardwareSlowdown == NumberOr(model.hardwareSlowdown, Fin(0))
        physicalLogicalQubitsRatio == IF model.physicalLogicalQubitsRatio = 0 THEN 1000
                                      ELSE model.physicalLogicalQubitsRatio
        ratioImprovementRate == economicParams(model).ratioImprovementRate
        quantumImprovementRate == economicParams(model).quantumImprovementRate
        costImprovementRate == economicParams(model).costImprovementRate
        costFactor == NumberOr(model.costFactor, Fin(1000))
        processors == NumberOr(model.processors, Fin(1000))
        qubitToProblemSize == IF model.qubitToProblemSize = "" THEN "q" ELSE model.qubitToProblemSize
        roadmapUnit == IF model.roadmapUnit = "" THEN "physical" ELSE model.roadmapUnit
        penaltyInput == convertQubits(model, IF model.penaltyInput = "" THEN "0" ELSE model.penaltyInput)
        quantumWork == convertQubits(model, model.quantumWork)
        built == {model.classicalRuntimeInput, model.quantumRuntimeInput, penaltyInput,
                  model.classicalWork, quantumWork}
        qf(y) == getQuantumFeasible(y, model.roadmap, physicalLogicalQubitsRatio, ratioImprovementRate,
                                    qubitToProblemSize, roadmapUnit, propsExtrapolation)
        qa(y) == getQuantumAdvantage(model.classicalRuntimeInput, model.quantumRuntimeInput, penaltyInput,
                                     hardwareSlowdown, quantumImprovementRate, processors,
                                     costImprovementRate, y).ret
        qca(y) == getQuantumAdvantage(model.classicalWork, quantumWork, penaltyInput,
                                      costFactor, costImprovementRate, processors,
                                      costImprovementRate, y).ret
        tStar == bisectionMethod([y \in 0..YearSpan |-> JsSub(qf(y), qa(y))], 0, YearSpan)
        tCostStar == bisectionMethod([y \in 0..YearSpan |-> JsSub(qf(y), qca(y))], 0, YearSpan)
        validTStar == tStar.k = "size" /\ tStar.v + CurrentYear # 0
        validTCostStar == tCostStar.k = "size" /\ tCostStar.v + CurrentYear # 0
        nStar == IF validTStar THEN qf(tStar.v) ELSE PosInf
        nCostStar == IF validTCostStar THEN qf(tCostStar.v) ELSE PosInf
        radius == yearRadius(tStar, tCostStar)
    IN  IF model.classicalRuntimeInput = "" \/ model.quantumRuntimeInput = ""
        THEN [outcome |-> "skip"]
        ELSE IF \E f \in built : createFails(f)
        THEN [outcome |-> "throw"]
        ELSE IF qf(0) = Throw
        THEN [outcome |-> "throw"]
        ELSE [outcome |-> "ok",
              econ |-> [tStar |-> YearOrInfinity(tStar), nStar |-> nStar,
                        tCostStar |-> YearOrInfinity(tCostStar), nCostStar |-> nCostStar,
                        yearRadius |-> radius,
                        quantumFeasible |-> [y \in SampledYears(radius) |-> safeMap(qf(y))],
                        problemName |-> model.problemName],
              roadmapData |-> [roadmapUnit |-> roadmapUnit,
                               tStar |-> YearOrInfinity(tStar), nStar |-> nStar,
                               tCostStar |-> YearOrInfinity(tCostStar), nCostStar |-> nCostStar,
                               roadmap |-> model.roadmap,
                               extrapolationType |-> model.extrapolationType,
                               physicalLogicalQubitsRatio |-> physicalLogicalQubitsRatio,
                               ratioImprovementRate |-> ratioImprovementRate,
                               qubitToProblemSize |-> qubitToProblemSize]]

(***************************************************************************)
(* getQuantumAdvantage as a function of its arguments                      *)
(***************************************************************************)
ClassicalFormulas == {"n", "n^2", "n^3", "n^3/p", "0/0", "log(-n, 10)", "f(n)"}
QuantumFormulas == {"n", "n^2", "0/0", "f(n)"}
PenaltyFormulas == {"1", "10", "0", "f(n)"}
Slowdowns == {Fin(0), Fin(8480), PosInf}
Rates == {0, 90, 100, 110}
ProcessorExps == {Fin(0), Fin(5000)}
MaxYearOff == 10
YearOffs == {0, 1, MaxYearOff}
EvalPoints == {0, 1, PrescanTop, GridTop}

QAArgSet ==
    [lcf : ClassicalFormulas, lqf : QuantumFormulas, lpf : PenaltyFormulas,
     hardwareSlowdown : Slowdowns, quantumImprovementRate : Rates,
     processors : ProcessorExps, costImprovementRate : {90, 100},
     yearOff : YearOffs]

DefaultQAArgs ==
    [lcf |-> "n^3", lqf |-> "n^2", lpf |-> "1", hardwareSlowdown |-> Fin(0),
     quantumImprovementRate |-> 100, processors |-> Fin(0), costImprovementRate |-> 100,
     yearOff |-> 0]

NoCall == [ret |-> Null, path |-> "none", iterations |-> 0, low |-> 0, bis |-> NotCalled]
NoEval == [at |-> -1, val |-> Null, failed |-> FALSE]

QACall(a) ==
    getQuantumAdvantage(a.lcf, a.lqf, a.lpf, a.hardwareSlowdown, a.quantumImprovementRate,
                        a.processors, a.costImprovementRate, a.yearOff)

QARaw(a) == adjustmentFactorRaw(a.hardwareSlowdown, a.quantumImprovementRate, a.yearOff)

QAPLog(a) == effectiveProcessors(a.processors, a.costImprovementRate, a.yearOff)

\* line 30: the adjustment evaluate subtracts
QAAdjustment(a) == JsMaxZero(QARaw(a))

\* evaluate(n) of the call with arguments a, at grid point g
QAEvaluate(a, g) ==
    evaluate(a.lcf, a.lqf, a.lpf, QAAdjustment(a), QAPLog(a), g)

\* the fractions of the percentage rates the form admits, -90 .. 90
FormRateFractions == {100 + r : r \in -90..90}

\* one of the three logged functions throws or yields a non-number at g
LoggedFails(a, g) ==
    \E f \in {a.lcf, a.lqf, a.lpf} : LoggedValue(f, g, QAPLog(a)).k \in {"throw", "nan", "undef"}

(***************************************************************************)
(* The debounced watcher of props.model                                    *)
(***************************************************************************)
DebounceMs == 50
TickMs == 25
MaxChanges == 3
ObjIds == {1, 2}

BaseModel ==
    [classicalRuntimeInput |-> "n^3", quantumRuntimeInput |-> "n^2",
     classicalWork |-> "n^3", quantumWork |-> "n^2", penaltyInput |-> "1",
     hardwareSlowdown |-> Fin(8480), costFactor |-> Fin(8000),
     quantumImprovementRate |-> -10, costImprovementRate |-> -10,
     processors |-> Fin(5000), qubitToProblemSize |-> "q",
     physicalLogicalQubitsRatio |-> 1000, ratioImprovementRate |-> -23,
     roadmap |-> [log0 |-> 2193, slope |-> 300], roadmapUnit |-> "physical",
     extrapolationType |-> "exponential", problemName |-> "Integer Factorization"]

\* the contents a model object can be given
ModelVals ==
    {[BaseModel EXCEPT !.classicalRuntimeInput = c] : c \in {"n^3", "n", "", "n+", "f(n)"}}

Extrapolations == {"exponential", "<null>"}

\* both calculations, tabulated once for the contents and the values of
\* props.model.extrapolationType that occur
CurrentPass == [m \in ModelVals |-> calculateCurrentAdvantage(m)] @@ << >>

EconomicPass ==
    [a \in ModelVals \X Extrapolations |-> calculateQuantumEconomicAdvantage(a[1], a[2])] @@ << >>

NoModel == [classicalRuntimeInput |-> "<none>"]
EmptyData == [req |-> 0, src |-> NoModel, data |-> [outcome |-> "none"]]
NoPass == [req |-> 0, src |-> NoModel, current |-> "none", economic |-> "none"]

\* clearTimeout that leaves the timeout scheduled
clearTimeout_noop(pending, id) == pending

clearTimeout(pending, id) == {t \in pending : t.id # id}

setTimeout(pending, id, newModel) == pending \cup {[id |-> id, newModel |-> newModel, age |-> 0]}

Min(a, b) == IF a < b THEN a ELSE b

(***************************************************************************)
(* The two calculations run on their own, on the models the form can build *)
(***************************************************************************)
\* the percentages of the quantum, cost and ratio improvement rates
RateTriples == {<<-10, -10, -23>>, <<0, -10, -23>>, <<-10, 0, -23>>, <<-10, -10, 0>>, <<0, 0, 0>>}
RoadmapSlopes == {300, 10}
RoadmapUnits == {"physical", "logical"}
Ratios == {1000, 3}

\* roadmaps that stay at 1 or at 3 logical qubits, costs falling or rising
FlatRoadmapModels ==
    {[BaseModel EXCEPT !.roadmap = [log0 |-> l, slope |-> 0], !.roadmapUnit = "logical",
                       !.quantumImprovementRate = q, !.costImprovementRate = c] :
        l \in {0, 500}, q \in {-10, 10}, c \in {-10, 10}}

CalcModels ==
    {[BaseModel EXCEPT !.quantumImprovementRate = t[1], !.costImprovementRate = t[2],
                       !.ratioImprovementRate = t[3], !.roadmap.slope = sl,
                       !.roadmapUnit = u, !.physicalLogicalQubitsRatio = r] :
        t \in RateTriples, sl \in RoadmapSlopes, u \in RoadmapUnits, r \in Ratios}
    \cup FlatRoadmapModels

CurrentCalc == [m \in CalcModels |-> calculateCurrentAdvantage(m)] @@ << >>

\* props.model is the model passed
EconomicCalc ==
    [m \in CalcModels |-> calculateQuantumEconomicAdvantage(m, m.extrapolationType)] @@ << >>

NotRun == [ran |-> FALSE]

IdleCalc ==
    /\ calcModel = BaseModel
    /\ calcCurrent = NotRun
    /\ calcEconomic = NotRun

(***************************************************************************)
(* Formula texts: convertToMathjs and the penalty default                  *)
(***************************************************************************)
MaxFormulaLen == 3
Chars == {" ", "-", "?", "n", "$"}

\* null or undefined in place of a text; also what convertToMathjs returns
\* for no formula
NullFormula == <<"null">>
NotConverted == <<"none">>
ZeroFormula == <<"0">>

Texts == UNION {[1..n -> Chars] : n \in 0..MaxFormulaLen}
Formulas == Texts \cup {NullFormula}

\* String.prototype.trim
TrimLeft[t \in Seq(Chars)] ==
    IF t # << >> /\ Head(t) = " " THEN TrimLeft[Tail(t)] ELSE t

TrimRight[t \in Seq(Chars)] ==
    IF t # << >> /\ t[Len(t)] = " " THEN TrimRight[SubSeq(t, 1, Len(t) - 1)] ELSE t

Trim(t) == TrimRight[TrimLeft[t]]

NotDollar(c) == c # "$"

\* line 114: replace(/\$/g, '')
RemoveDollars(t) == SelectSeq(t, NotDollar)

\* line 177: replace(/\s+/g, ' ')
CollapseSpaces[t \in Seq(Chars)] ==
    IF Len(t) < 2 THEN t
    ELSE IF t[1] = " " /\ t[2] = " " THEN CollapseSpaces[Tail(t)]
    ELSE <<t[1]>> \o CollapseSpaces[Tail(t)]

\* lines 106-192, on texts of blanks, placeholders, n and $: none holds
\* an L_n form, a skipped or rejected pattern or another conversion
convertToMathjs(f) ==
    IF f = NullFormula \/ f = << >> \/ Trim(f) = << >> \/ f = <<"-">> \/ f = <<"?">>
    THEN NullFormula
    ELSE LET result == Trim(CollapseSpaces[RemoveDollars(Trim(f))])
         IN  IF result = << >> THEN NullFormula ELSE result

\* Models.vue lines 94 and 183: model.penaltyInput || "0" (line 95 does the
\* same for model.quantumWork)
penaltyOrZero(f) == IF f = NullFormula \/ f = << >> THEN ZeroFormula ELSE f

IdleConv ==
    /\ formulaText = << >>
    /\ converted = NotConverted
    /\ penaltyBuilt = NotConverted

(***************************************************************************)
(* getBestAlgorithm                                                        *)
(***************************************************************************)
MaxAlgorithms == 3

\* speed, work, span, space: the values the variant data holds
MetricVectors ==
    {<<1, 1, 2, 2>>, <<1, 2, 2, 2>>, <<2, 1, 2, 2>>, <<1, 1, 1, 2>>, <<1, 1, 2, 1>>}

Priorities == <<"speed", "work", "span", "space">>

\* the lists of a problem's variants; key is the variant's place in the data
AlgorithmLists ==
    UNION {[1..n -> [available : BOOLEAN, metrics : MetricVectors]] : n \in 0..MaxAlgorithms}

Keyed(list) ==
    [i \in 1..Len(list) |->
        [key |-> i, available |-> list[i].available,
         metrics |-> [k \in {"speed", "work", "span", "space"} |->
                        list[i].metrics[CHOOSE j \in 1..4 : Priorities[j] = k]]]]

\* a.metrics[key] || Infinity
MetricOrInfinity(a, key) == IF a.metrics[key] = 0 THEN PosInf ELSE Fin(a.metrics[key])

\* lines 503-509: the comparator; the sign of what it returns, 0 for NaN
compareAlgorithms_speedOnly(a, b) ==
    JsSign[JsSub(MetricOrInfinity(a, "speed"), MetricOrInfinity(b, "speed"))]

compareAlgorithms(a, b) ==
    LET diff(key) == JsSub(MetricOrInfinity(a, key), MetricOrInfinity(b, key))
        cmp[j \in 1..5] ==
            IF j > 4 THEN 0
            ELSE IF diff(Priorities[j]) # Fin(0) THEN JsSign[diff(Priorities[j])]
            ELSE cmp[j + 1]
    IN  cmp[1]

\* Array.prototype.sort: stable, x goes behind the elements not after it
InsertSorted(sorted, x) ==
    LET behind == {i \in 1..Len(sorted) : compareAlgorithms(sorted[i], x) <= 0}
        at == IF behind = {} THEN 0 ELSE CHOOSE i \in behind : \A j \in behind : j <= i
    IN  SubSeq(sorted, 1, at) \o <<x>> \o SubSeq(sorted, at + 1, Len(sorted))

SortAlgorithms(list) ==
    LET sorted[i \in 0..Len(list)] ==
            IF i = 0 THEN << >> ELSE InsertSorted(sorted[i - 1], list[i])
    IN  sorted[Len(list)]

IsAvailable(a) == a.available

\* lines 499-511.  ret is the value returned, input the list passed as the
\* call leaves it: filter builds a new array and sort reorders that one
getBestAlgorithm(list) ==
    LET available == SelectSeq(list, IsAvailable)
    IN  IF Len(available) = 0
        THEN [ret |-> IF list = << >> THEN Undefined ELSE list[1], input |-> list]
        ELSE [ret |-> SortAlgorithms(available)[1], input |-> list]

NoBest == [ret |-> NotCalled]

IdleBest ==
    /\ algorithms = << >>
    /\ bestCall = NoBest

(***************************************************************************)
(* The models store (store/models.js)                                      *)
(***************************************************************************)
StoreMaxId == 3
MaxEdits == 1

\* A nested object (roadmap, advancedSlowdown) is a reference into
\* store.heap.  The objects a model is created with are its own; the
\* objects of the form's local model of that id are the form's.
NestedKinds == {"roadmap", "advancedSlowdown"}
Refs == [owner : {"store", "form"}, id : 1..(StoreMaxId + 1), kind : NestedKinds]
NestedVals == {"default", "edited"}
StoreFormulas == {"n^3", "n"}

OwnRef(owner, id, kind) == [owner |-> owner, id |-> id, kind |-> kind]

\* lines 13-64
InitialStore ==
    [models |-> <<[id |-> 1, problemName |-> "Integer Factorization",
                   classicalRuntimeInput |-> "n^3", quantumRuntimeInput |-> "n^2",
                   classicalWork |-> "n^3", quantumWork |-> "n^2", penaltyInput |-> "1",
                   processors |-> Fin(5000),
                   roadmap |-> OwnRef("store", 1, "roadmap"),
                   advancedSlowdown |-> OwnRef("store", 1, "advancedSlowdown")]>>,
     nextId |-> 2,
     heap |-> [r \in Refs |-> "default"]]

\* models.value.findIndex(m => m.id === id), 0 for -1
FindIndex(st, id) ==
    IF \E i \in 1..Len(st.models) : st.models[i].id = id
    THEN CHOOSE i \in 1..Len(st.models) :
            /\ st.models[i].id = id
            /\ \A j \in 1..(i - 1) : st.models[j].id # id
    ELSE 0

\* lines 71-116: modelData is {} or holds a classicalRuntimeInput
addModel(st, modelData) ==
    LET newModel ==
            [id |-> st.nextId,
             problemName |-> "Integer Factorization",
             classicalRuntimeInput |->
                 IF "classicalRuntimeInput" \in DOMAIN modelData /\ modelData.classicalRuntimeInput # ""
                 THEN modelData.classicalRuntimeInput ELSE "n^3",
             quantumRuntimeInput |-> "n^2", classicalWork |-> "n^3", quantumWork |-> "n^2",
             penaltyInput |-> "1",
             processors |-> Fin(5000),
             roadmap |-> OwnRef("store", st.nextId, "roadmap"),
             advancedSlowdown |-> OwnRef("store", st.nextId, "advancedSlowdown")]
    IN  [st |-> [st EXCEPT !.models = Append(@, newModel), !.nextId = @ + 1],
         ret |-> newModel]

\* lines 122-127
removeModel(st, id) ==
    LET index == FindIndex(st, id)
    IN  IF index # 0
        THEN [st EXCEPT !.models = SubSeq(@, 1, index - 1) \o SubSeq(@, index + 1, Len(@))]
        ELSE st

\* Object.assign(target, updates)
ObjectAssign(target, updates) ==
    [f \in DOMAIN target \cup DOMAIN updates |->
        IF f \in DOMAIN updates THEN updates[f] ELSE target[f]]

\* updateModel that adds the model when the store has none of that id
updateModel_upsert(st, id, updates) ==
    LET index == FindIndex(st, id)
    IN  IF index # 0
        THEN [st EXCEPT !.models[index] = ObjectAssign(@, updates)]
        ELSE [st EXCEPT !.models = Append(@, updates)]

\* lines 134-139
updateModel(st, id, updates) ==
    LET index == FindIndex(st, id)
    IN  IF index # 0
        THEN [st EXCEPT !.models[index] = ObjectAssign(@, updates)]
        ELSE st

\* JSON.parse(JSON.stringify(x)) of a number: NaN and the infinities
\* become null
JsonNumber(x) == IF x.k \in {"nan", "inf"} THEN Null ELSE x

\* JSON.parse(JSON.stringify(x)) of a text, null or undefined property: an
\* undefined property is left out and reads as undefined
JsonText(x) == x

\* JSON.parse(JSON.stringify(original)) with the id given: the nested
\* objects of the clone are the ones named by owner and id
JsonClone(original, owner, id) ==
    [f \in DOMAIN original |->
        IF f = "id" THEN id
        ELSE IF f \in NestedKinds THEN OwnRef(owner, id, f)
        ELSE IF f = "processors" THEN JsonNumber(original[f])
        ELSE JsonText(original[f])]

\* the heap once the nested objects of clone hold what those of original hold
HeapWithClone(h, original, clone) ==
    [r \in Refs |->
        IF r = clone.roadmap THEN h[original.roadmap]
        ELSE IF r = clone.advancedSlowdown THEN h[original.advancedSlowdown]
        ELSE h[r]]

\* duplicateModel whose copy is shallow: { ...original, id }
duplicateModel_shallow(st, id) ==
    LET index == FindIndex(st, id)
        duplicate == [st.models[index] EXCEPT !.id = st.nextId]
    IN  IF index = 0 THEN [st |-> st, ret |-> Null]
        ELSE [st |-> [st EXCEPT !.models = Append(@, duplicate), !.nextId = @ + 1],
              ret |-> duplicate]

\* duplicateModel whose spread comes last: { id, ...clone }
duplicateModel_keepsId(st, id) ==
    LET index == FindIndex(st, id)
        original == st.models[index]
        duplicate == [JsonClone(original, "store", st.nextId) EXCEPT !.id = original.id]
    IN  IF index = 0 THEN [st |-> st, ret |-> Null]
        ELSE [st |-> [st EXCEPT !.models = Append(@, duplicate), !.nextId = @ + 1,
                                !.heap = HeapWithClone(@, original, duplicate)],
              ret |-> duplicate]

\* lines 155-166: the deep clone gives the copy nested objects of its own,
\* holding what the original's hold
duplicateModel(st, id) ==
    LET index == FindIndex(st, id)
        original == st.models[index]
        duplicate == JsonClone(original, "store", st.nextId)
    IN  IF index = 0 THEN [st |-> st, ret |-> Null]
        ELSE [st |-> [st EXCEPT !.models = Append(@, duplicate), !.nextId = @ + 1,
                                !.heap = HeapWithClone(@, original, duplicate)],
              ret |-> duplicate]

\* a model with its nested objects in place of the references
Deep(st, m) ==
    [m EXCEPT !.roadmap = st.heap[m.roadmap], !.advancedSlowdown = st.heap[m.advancedSlowdown]]

DeepModels(st) == [i \in 1..Len(st.models) |-> Deep(st, st.models[i])]

NoStoreCall == [op |-> "none"]

IdleStore ==
    /\ store = InitialStore
    /\ removedIds = {}
    /\ storeCall = NoStoreCall
    /\ edits = 0

(***************************************************************************)
(* The form of one model (Form.vue) and its runtime dialog                 *)
(* (ProblemRuntimeAdvanced.vue).  A formula is a text; null and undefined  *)
(* are kept apart from the texts.  Watcher callbacks run from a queue of   *)
(* jobs, nextTick callbacks once the queue has drained, and a user event   *)
(* only when both are empty.                                               *)
(***************************************************************************)
MaxTyped == 1
MaxFormEvents == 4

NullText == "<null>"
UndefinedText == "<undefined>"

\* !x for a text, null or undefined
Falsy(x) == x \in {"", NullText, UndefinedText}

\* a || b
OrElse(a, b) == IF Falsy(a) THEN b ELSE a

\* obj.field: undefined when the object has no such property
Prop(obj, field) == IF field \in DOMAIN obj THEN obj[field] ELSE UndefinedText

FormModelId == 1

RuntimeFields == {"classicalRuntimeInput", "classicalWork", "quantumRuntimeInput", "quantumWork"}
InputNames == RuntimeFields \cup {"penaltyInput"}

\* Form.vue lines 30-71: the first and the third problem of the list
IntegerFactorization ==
    [problemName |-> "Integer Factorization",
     classicalRuntimeInput |-> "e^((64/9 * n)^(1/3) * log(n, e)^(2/3)) / p",
     classicalWork |-> "e^((64/9 * n)^(1/3) * log(n, e)^(2/3))",
     quantumRuntimeInput |-> "n^(2) * log(n, e)",
     quantumWork |-> "n^(2) * log(n, e) * q",
     qubitToProblemSize |-> "{q}"]

TravelingSalesman ==
    [problemName |-> "Traveling Salesman",
     classicalRuntimeInput |-> "n^3 * 2^n / p",
     classicalWork |-> "n^3 * 2^n",
     quantumRuntimeInput |-> "n * 1.78^n",
     quantumWork |-> "n * 1.78^n * q",
     qubitToProblemSize |-> "{q}"]

problems == <<IntegerFactorization, TravelingSalesman>>

\* problems.value.find(p => p.problemName === name) || problems.value[0]
FindProblem(name) ==
    IF \E i \in 1..Len(problems) : problems[i].problemName = name
    THEN problems[CHOOSE i \in 1..Len(problems) :
                    /\ problems[i].problemName = name
                    /\ \A j \in 1..(i - 1) : problems[j].problemName # name]
    ELSE problems[1]

Variant(key, available, runtimeFormula, workFormula, m) ==
    [key |-> key, available |-> available,
     runtimeFormula |-> runtimeFormula, workFormula |-> workFormula,
     metrics |-> [speed |-> m[1], work |-> m[2], span |-> m[3], space |-> m[4]]]

\* algorithmVariants.js: three of the classical and two of the quantum
\* variants of Integer Factorization
GnfsParallel ==
    Variant("gnfs-parallel", TRUE, "e^((64/9 * n)^(1/3) * log(n, e)^(2/3)) / p",
            "e^((64/9 * n)^(1/3) * log(n, e)^(2/3))", <<1, 1, 2, 2>>)
TrialDivisionParallel ==
    Variant("trial-division-parallel", TRUE, "sqrt(n) / p", "sqrt(n)", <<3, 3, 1, 1>>)
EcmLenstra ==
    Variant("ecm-lenstra", FALSE, NullText, NullText, <<2, 2, 2, 2>>)
Jacobi ==
    Variant("jacobi", TRUE, "n * log(n, e)", "n * log(n, e) * q", <<1, 1, 1, 1>>)
Regev ==
    Variant("regev", TRUE, "n^2", "n^2 * q", <<1, 1, 1, 2>>)

\* a quantum variant as createVariant writes it when the runtime of its
\* source row does not convert: available false, both formulas null
UnconvertedQuantum ==
    Variant("unconverted", FALSE, NullText, NullText, <<2, 2, 2, 2>>)

\* The entry of algorithmVariants for Integer Factorization: the data as
\* shipped, and the data as the sync script writes it for source rows of
\* which none converts (parseProblem drops a problem only when a list is
\* empty)
VariantTables ==
    [classical : {<<GnfsParallel, TrialDivisionParallel, EcmLenstra>>, <<EcmLenstra>>},
     quantum : {<<Jacobi, Regev>>, <<UnconvertedQuantum>>}]

\* algorithmVariants[problemName] is defined
HasVariants(problemName) == problemName = "Integer Factorization"

\* problemVariants.classical.filter(a => a.available), [] without variants
AvailableAlgorithms(table, problem, kind) ==
    IF problem = Null THEN << >>
    ELSE IF ~HasVariants(problem.problemName) THEN << >>
    ELSE SelectSeq(table[kind], IsAvailable)

RuntimeFieldOf(kind) == IF kind = "classical" THEN "classicalRuntimeInput" ELSE "quantumRuntimeInput"
WorkFieldOf(kind) == IF kind = "classical" THEN "classicalWork" ELSE "quantumWork"

\* lines 273-308 of the selectedProblem watcher: the two selections and the
\* updates it builds
problemUpdates(newProblem, table) ==
    LET best(kind) == getBestAlgorithm(table[kind]).ret
        formulas(kind) ==
            IF HasVariants(newProblem.problemName) /\ best(kind) # Undefined
            THEN [runtime |-> OrElse(Prop(best(kind), RuntimeFieldOf(kind)),
                                     Prop(best(kind), "runtimeFormula")),
                  work |-> OrElse(Prop(best(kind), WorkFieldOf(kind)),
                                  Prop(best(kind), "workFormula"))]
            ELSE [runtime |-> newProblem[RuntimeFieldOf(kind)],
                  work |-> newProblem[WorkFieldOf(kind)]]
        selected(kind) ==
            IF HasVariants(newProblem.problemName) /\ best(kind) # Undefined
            THEN best(kind) ELSE Null
    IN  [selected |-> [kind \in {"classical", "quantum"} |-> selected(kind)],
         updates |-> [problemName |-> newProblem.problemName,
                      qubitToProblemSize |-> newProblem.qubitToProblemSize,
                      classicalRuntimeInput |-> formulas("classical").runtime,
                      classicalWork |-> formulas("classical").work,
                      quantumRuntimeInput |-> formulas("quantum").runtime,
                      quantumWork |-> formulas("quantum").work]]

\* the first line of the two algorithm watchers (317, 324) without the lock
algorithmWatcherReturns_noLock(newAlg, locked, model) ==
    newAlg = Null \/ model = Null

\* lines 317 and 324: the algorithm watcher returns without writing
algorithmWatcherReturns(newAlg, locked, model) ==
    newAlg = Null \/ locked \/ model = Null

\* lines 319-320, 326-327 and 391-397: the formulas an algorithm gives
algorithmFormulas(alg, kind) ==
    [f \in {RuntimeFieldOf(kind), WorkFieldOf(kind)} |->
        IF f = RuntimeFieldOf(kind)
        THEN OrElse(Prop(alg, "runtimeFormula"), Prop(alg, RuntimeFieldOf(kind)))
        ELSE OrElse(Prop(alg, "workFormula"), Prop(alg, WorkFieldOf(kind)))]

\* lines 375-378; Number(x) of the number the dialog was given is that number
updateFunctions(model, updatedValues) ==
    [ObjectAssign(model, updatedValues) EXCEPT !.processors = updatedValues.processors]

\* lines 385-399: the model after the forced update
onAlgorithmChangeModel(model, classicalAlgorithm, quantumAlgorithm) ==
    LET c == IF classicalAlgorithm # Null
             THEN algorithmFormulas(classicalAlgorithm, "classical") ELSE << >>
        q == IF quantumAlgorithm # Null
             THEN algorithmFormulas(quantumAlgorithm, "quantum") ELSE << >>
    IN  ObjectAssign(ObjectAssign(model, c), q)

\* the job queue of the scheduler: a job already queued is not queued again
QueueJob(queue, watcher, cause) ==
    IF \E i \in 1..Len(queue) : queue[i].watcher = watcher
    THEN queue
    ELSE Append(queue, [watcher |-> watcher, cause |-> cause])

QueueJobIf(cond, queue, watcher, cause) ==
    IF cond THEN QueueJob(queue, watcher, cause) ELSE queue

(***************************************************************************)
(* The runtime dialog: validation and save                                 *)
(***************************************************************************)
\* what the user types into an input
TypedTexts == {"", "n^", "2 * n / p", "2 * n", "n * q"}

\* math.compile throws on these
NoCompile == {"n^"}

\* the texts with a free p, and what utils.replaceVariable(text, 'p', '(1)')
\* makes of them
ProcessorTexts ==
    {"e^((64/9 * n)^(1/3) * log(n, e)^(2/3)) / p", "n^3 * 2^n / p", "sqrt(n) / p",
     "2 * n / p"}

replaceProcessors(expression) ==
    CASE expression = "e^((64/9 * n)^(1/3) * log(n, e)^(2/3)) / p"
            -> "e^((64/9 * n)^(1/3) * log(n, e)^(2/3)) / (1)"
      [] expression = "n^3 * 2^n / p" -> "n^3 * 2^n / (1)"
      [] expression = "sqrt(n) / p" -> "sqrt(n) / (1)"
      [] expression = "2 * n / p" -> "2 * n / (1)"
      [] OTHER -> expression

\* the texts with a free q
QubitTexts ==
    {"n^(2) * log(n, e) * q", "n * 1.78^n * q", "n * log(n, e) * q", "n^2 * q", "n * q"}

\* the symbols compiled.evaluate(scope) looks up in the scope
FreeSymbols(text) ==
    {"n"} \cup (IF text \in ProcessorTexts THEN {"p"} ELSE {})
          \cup (IF text \in QubitTexts THEN {"q"} ELSE {})

\* lines 120, 130-135
ScopeOf(inputName) ==
    {"n"} \cup (IF inputName = "classicalRuntimeInput" THEN {"p"} ELSE {})
          \cup (IF inputName \in {"quantumWork", "penaltyInput"} THEN {"q"} ELSE {})

\* lines 123-137: nothing is thrown before errors[inputName] = false
Validates(inputName, text) ==
    /\ ~Falsy(text)
    /\ text \notin NoCompile
    /\ FreeSymbols(text) \subseteq ScopeOf(inputName)

\* lines 119-152.  d is the dialog: its fields and its error flags
validateInput(d, inputName, overrideClassicalWork) ==
    IF ~Validates(inputName, d.fields[inputName])
    THEN [d EXCEPT !.errors[inputName] = TRUE]
    ELSE IF overrideClassicalWork /\ inputName = "classicalRuntimeInput"
    THEN LET work == replaceProcessors(d.fields.classicalRuntimeInput)
         IN  [d EXCEPT !.errors.classicalRuntimeInput = FALSE,
                       !.fields.classicalWork = work,
                       !.errors.classicalWork = ~Validates("classicalWork", work)]
    ELSE [d EXCEPT !.errors[inputName] = FALSE]

\* lines 154-160
validateAllInputs(d, overrideClassicalWork) ==
    LET d1 == validateInput(d, "classicalRuntimeInput", overrideClassicalWork)
        d2 == validateInput(d1, "quantumRuntimeInput", FALSE)
        d3 == validateInput(d2, "penaltyInput", FALSE)
        d4 == validateInput(d3, "classicalWork", FALSE)
    IN  validateInput(d4, "quantumWork", FALSE)

NoErrors == [i \in InputNames |-> FALSE]

\* lines 61-77: the watchers of the local selection, run for a selection
\* that changed to an algorithm
autoFill(d, kind) ==
    LET alg == d.selected[kind]
        filled == [d EXCEPT
            !.fields[RuntimeFieldOf(kind)] =
                OrElse(Prop(alg, RuntimeFieldOf(kind)), Prop(alg, "runtimeFormula")),
            !.fields[WorkFieldOf(kind)] =
                OrElse(Prop(alg, WorkFieldOf(kind)), Prop(alg, "workFormula"))]
    IN  IF alg = Null THEN d ELSE validateAllInputs(filled, FALSE)

selectionWatchers(before, d) ==
    LET c == IF d.selected.classical # before.selected.classical
             THEN autoFill(d, "classical") ELSE d
    IN  IF d.selected.quantum # before.selected.quantum THEN autoFill(c, "quantum") ELSE c

\* lines 79-89, with the watchers its two selections set off.  model is the
\* parent's, selected the parent's selection: the props
reset(d, model, selected) ==
    selectionWatchers(d,
        [d EXCEPT !.fields = [i \in InputNames |-> model[i]],
                  !.processors = model.processors,
                  !.selected = selected,
                  !.errors = NoErrors])

\* lines 91-112: the dialog after save and the two payloads it emits
save(d) ==
    LET v == validateAllInputs(d, TRUE)
    IN  IF \E i \in InputNames : v.errors[i]
        THEN [dialog |-> v, emitted |-> FALSE]
        ELSE [dialog |-> [v EXCEPT !.open = FALSE], emitted |-> TRUE,
              updateFunctions |-> [i \in InputNames \cup {"processors"} |->
                                      IF i = "processors" THEN v.processors ELSE v.fields[i]],
              updateAlgorithmChange |-> [classicalAlgorithm |-> v.selected.classical,
                                         quantumAlgorithm |-> v.selected.quantum]]

ClosedDialog ==
    [open |-> FALSE,
     fields |-> [i \in InputNames |-> UndefinedText],
     processors |-> Undefined,
     selected |-> [classical |-> Null, quantum |-> Null],
     errors |-> NoErrors]

NoRun == [op |-> "none"]

IdleFormState ==
    /\ formMounted = FALSE
    /\ formModel = Null
    /\ selectedProblem = Null
    /\ selectedAlgorithm = [classical |-> Null, quantum |-> Null]
    /\ isUpdatingFromAlgorithm = FALSE
    /\ watched = [problem |-> Null, classical |-> Null, quantum |-> Null]
    /\ jobs = << >>
    /\ tickCallbacks = 0
    /\ dialog = ClosedDialog
    /\ typed = 0
    /\ formEvents = 0
    /\ algRun = NoRun
    /\ problemRun = NoRun
    /\ saveRun = NoRun
    /\ syncRun = NoRun

IdleForm ==
    /\ variants = [classical |-> <<GnfsParallel, TrialDivisionParallel, EcmLenstra>>,
                   quantum |-> <<Jacobi, Regev>>]
    /\ IdleFormState

(***************************************************************************)
(* Curve sampling of calculateCurrentAdvantage (Models.vue lines 140-166).  *)
(* Values are in thousandths.                                              *)
(***************************************************************************)
\* what a converted function gives at a sample point: it throws, or returns
\* NaN, Infinity (an overflow), zero, a negative or a positive value
PointOutcomes == {Throw, NaN, PosInf, Fin(0), Fin(-1000), Fin(2000)}

\* Number(model.hardwareSlowdown) || 0 and Number(model.costFactor) || 1
HardwareSlowdowns == {Fin(0), Fin(8480)}
CostFactors == {Fin(1000), Fin(8000)}

\* lines 162-165: the sentinels 99999 and -1
QuantumSentinel == Fin(99999000)
ClassicalSentinel == Fin(-1000)

\* lines 149-154
safeCalc(outcome) ==
    IF outcome.k = "throw" THEN Null
    ELSE IF IsFinite(outcome) /\ outcome.v > 0 THEN outcome
    ELSE Null

\* p[1] || sentinel
StepOr(step, sentinel) ==
    IF step.k \in {"nan", "null", "undef"} \/ step = Fin(0) THEN sentinel ELSE step

\* lines 156-165 at one sample point
sampleSteps(point) ==
    [quantumSteps |->
        StepOr(JsAdd(JsAdd(safeCalc(point.cqf), safeCalc(point.cpf)), point.hardwareSlowdown),
               QuantumSentinel),
     classicalSteps |-> StepOr(safeCalc(point.ccf), ClassicalSentinel),
     quantumCostSteps |->
        StepOr(JsAdd(JsAdd(safeCalc(point.cqfc), safeCalc(point.cpf)), point.costFactor),
               QuantumSentinel),
     classicalCostSteps |-> StepOr(safeCalc(point.ccfc), ClassicalSentinel),
     threw |-> FALSE]

NoPoint == [k |-> "none"]

NotSampled == [threw |-> FALSE, sampled |-> FALSE]

IdleCurve ==
    /\ curvePoint = NoPoint
    /\ curveSteps = NotSampled

IdleLate == IdleStore /\ IdleForm /\ IdleCurve

Init ==
    /\ qaArgs = DefaultQAArgs
    /\ qaRet = NoCall
    /\ qaEval = NoEval
    /\ heap = [o \in ObjIds |-> BaseModel]
    /\ propsModel \in {0, 1}
    /\ mounted = TRUE
    \* watch(..., { immediate: true }): the callback has run once at setup
    /\ debounceTimer = 1
    /\ timers = setTimeout({}, 1, propsModel)
    /\ rafQueue = << >>
    /\ frameRunning = FALSE
    /\ currentAdvantageData = EmptyData
    /\ quantumEconomicAdvantageData = EmptyData
    /\ roadmapCharacteristicsData = EmptyData
    /\ reqCount = 1
    /\ sinceChange = 0
    /\ gapShort = {}
    /\ fired = {}
    /\ nullReqs = IF propsModel = 0 THEN {1} ELSE {}
    /\ runs = [r \in 1..MaxChanges |-> 0]
    /\ lastPass = NoPass
    /\ passLog = {}
    /\ IdleCalc
    /\ IdleConv
    /\ IdleBest
    /\ IdleLate

\* lines 290-299: the watcher callback, run for a change of props.model
\* (a new reference, or null) or for a change inside the object it refers to
WatchCallback ==
    /\ debounceTimer' = reqCount + 1
    /\ timers' = setTimeout(IF debounceTimer # 0 THEN clearTimeout(timers, debounceTimer) ELSE timers,
                            reqCount + 1, propsModel')
    /\ reqCount' = reqCount + 1
    /\ sinceChange' = 0
    /\ gapShort' = IF sinceChange < DebounceMs THEN gapShort \cup {reqCount} ELSE gapShort
    /\ nullReqs' = IF propsModel' = 0 THEN nullReqs \cup {reqCount + 1} ELSE nullReqs
    /\ UNCHANGED <<qaVars, pureVars, lateVars, mounted, rafQueue, frameRunning, outVars, fired, runs, lastPass, passLog>>

ModelChange ==
    /\ mounted
    /\ ~frameRunning
    /\ reqCount < MaxChanges
    /\ \/ /\ propsModel # 0
          /\ \E m \in ModelVals \ {heap[propsModel]} :
                heap' = [heap EXCEPT ![propsModel] = m]
          /\ UNCHANGED propsModel
       \/ /\ \E o \in (ObjIds \cup {0}) \ {propsModel} : propsModel' = o
          /\ UNCHANGED heap
    /\ WatchCallback

Tick ==
    /\ ~frameRunning
    /\ sinceChange < DebounceMs
    /\ sinceChange' = Min(sinceChange + TickMs, DebounceMs)
    /\ timers' = {[t EXCEPT !.age = Min(t.age + TickMs, DebounceMs)] : t \in timers}
    /\ UNCHANGED <<qaVars, pureVars, lateVars, heap, propsModel, mounted, debounceTimer, rafQueue, frameRunning, outVars,
                   reqCount, gapShort, fired, nullReqs, runs, lastPass, passLog>>

\* lines 292-298: the timeout callback
TimerFire ==
    /\ ~frameRunning
    /\ \E t \in timers :
          /\ t.age >= DebounceMs
          /\ timers' = timers \ {t}
          /\ fired' = fired \cup {t.id}
          /\ rafQueue' = IF t.newModel = 0 THEN rafQueue
                         ELSE Append(rafQueue, [req |-> t.id, newModel |-> t.newModel])
    /\ UNCHANGED <<qaVars, pureVars, lateVars, heap, propsModel, mounted, debounceTimer, frameRunning, outVars,
                   reqCount, sinceChange, gapShort, nullReqs, runs, lastPass, passLog>>

\* lines 294-297: the animation-frame callback, both calculations.  A frame
\* runs every callback queued for it, one after the other, before any
\* other event is handled.
Frame ==
    /\ rafQueue # << >>
    /\ LET cb == Head(rafQueue)
           model == heap[cb.newModel]
           propsExtrapolation == IF propsModel = 0 THEN "<null>"
                                 ELSE heap[propsModel].extrapolationType
       IN  \E cur \in {CurrentPass[model]}, eco \in {EconomicPass[<<model, propsExtrapolation>>]} :
              /\ rafQueue' = Tail(rafQueue)
              /\ frameRunning' = (Tail(rafQueue) # << >>)
              /\ runs' = [runs EXCEPT ![cb.req] = @ + 1]
              /\ currentAdvantageData' =
                    IF cur.outcome = "ok" THEN [req |-> cb.req, src |-> model, data |-> cur]
                    ELSE currentAdvantageData
              /\ quantumEconomicAdvantageData' =
                    IF cur.outcome # "throw" /\ eco.outcome = "ok"
                    THEN [req |-> cb.req, src |-> model, data |-> eco.econ]
                    ELSE quantumEconomicAdvantageData
              /\ roadmapCharacteristicsData' =
                    IF cur.outcome # "throw" /\ eco.outcome = "ok"
                    THEN [req |-> cb.req, src |-> model, data |-> eco.roadmapData]
                    ELSE roadmapCharacteristicsData
              /\ lastPass' = [req |-> cb.req, src |-> model, current |-> cur.outcome,
                              economic |-> IF cur.outcome = "throw" THEN "notrun" ELSE eco.outcome]
              /\ passLog' = IF cur.outcome = "throw" THEN passLog
                            ELSE passLog \cup {[src |-> model, result |-> eco]}
    /\ UNCHANGED <<qaVars, pureVars, lateVars, heap, propsModel, mounted, debounceTimer, timers,
                   reqCount, sinceChange, gapShort, fired, nullReqs>>

\* lines 301-303
Unmount ==
    /\ mounted
    /\ ~frameRunning
    /\ mounted' = FALSE
    /\ timers' = IF debounceTimer # 0 THEN clearTimeout(timers, debounceTimer) ELSE timers
    /\ UNCHANGED <<qaVars, pureVars, lateVars, heap, propsModel, debounceTimer, rafQueue, frameRunning, outVars, ghostVars>>

Next == ModelChange \/ Tick \/ TimerFire \/ Frame \/ Unmount

Spec == Init /\ [][Next]_vars

(***************************************************************************)
(* The specification of getQuantumAdvantage on its own                     *)
(***************************************************************************)
InitQA ==
    /\ qaArgs \in QAArgSet
    /\ qaRet = NoCall
    /\ qaEval = NoEval
    /\ heap = [o \in ObjIds |-> BaseModel]
    /\ propsModel = 0
    /\ mounted = FALSE
    /\ debounceTimer = 0
    /\ timers = {}
    /\ rafQueue = << >>
    /\ frameRunning = FALSE
    /\ currentAdvantageData = EmptyData
    /\ quantumEconomicAdvantageData = EmptyData
    /\ roadmapCharacteristicsData = EmptyData
    /\ reqCount = 0
    /\ sinceChange = 0
    /\ gapShort = {}
    /\ fired = {}
    /\ nullReqs = {}
    /\ runs = [r \in 1..MaxChanges |-> 0]
    /\ lastPass = NoPass
    /\ passLog = {}
    /\ IdleCalc
    /\ IdleConv
    /\ IdleBest
    /\ IdleLate

CallGetQuantumAdvantage ==
    /\ qaRet = NoCall
    /\ qaRet' = QACall(qaArgs)
    /\ UNCHANGED <<qaArgs, qaEval, watchVars, pureVars, lateVars>>

\* evaluate exists only once the call is past the finiteness check of line 29
CallEvaluate ==
    /\ IsFinite(QARaw(qaArgs))
    /\ \E g \in EvalPoints :
          qaEval' = [at |-> g, val |-> QAEvaluate(qaArgs, g), failed |-> LoggedFails(qaArgs, g)]
    /\ UNCHANGED <<qaArgs, qaRet, watchVars, pureVars, lateVars>>

NextQA == CallGetQuantumAdvantage \/ CallEvaluate

SpecQA == InitQA /\ [][NextQA]_vars


(***************************************************************************)
(* The specification of the two calculations on their own                  *)
(***************************************************************************)
IdleQA ==
    /\ qaArgs = DefaultQAArgs
    /\ qaRet = NoCall
    /\ qaEval = NoEval

IdleWatch ==
    /\ heap = [o \in ObjIds |-> BaseModel]
    /\ propsModel = 0
    /\ mounted = FALSE
    /\ debounceTimer = 0
    /\ timers = {}
    /\ rafQueue = << >>
    /\ frameRunning = FALSE
    /\ currentAdvantageData = EmptyData
    /\ quantumEconomicAdvantageData = EmptyData
    /\ roadmapCharacteristicsData = EmptyData
    /\ reqCount = 0
    /\ sinceChange = 0
    /\ gapShort = {}
    /\ fired = {}
    /\ nullReqs = {}
    /\ runs = [r \in 1..MaxChanges |-> 0]
    /\ lastPass = NoPass
    /\ passLog = {}

InitCalc ==
    /\ IdleQA
    /\ IdleWatch
    /\ calcModel \in CalcModels
    /\ calcCurrent = NotRun
    /\ calcEconomic = NotRun
    /\ IdleConv
    /\ IdleBest
    /\ IdleLate

RunCurrent ==
    /\ ~calcCurrent.ran
    /\ calcCurrent' = [ran |-> TRUE, params |-> currentParams(calcModel),
                       result |-> CurrentCalc[calcModel]]
    /\ UNCHANGED <<qaVars, watchVars, calcModel, calcEconomic, convVars, bestVars, lateVars>>

RunEconomic ==
    /\ ~calcEconomic.ran
    /\ calcEconomic' = [ran |-> TRUE, params |-> economicParams(calcModel),
                        result |-> EconomicCalc[calcModel]]
    /\ UNCHANGED <<qaVars, watchVars, calcModel, calcCurrent, convVars, bestVars, lateVars>>

NextCalc == RunCurrent \/ RunEconomic

SpecCalc == InitCalc /\ [][NextCalc]_vars

(***************************************************************************)
(* The specification of the formula texts                                  *)
(***************************************************************************)
InitConv ==
    /\ IdleQA
    /\ IdleWatch
    /\ IdleCalc
    /\ formulaText \in Formulas
    /\ converted = NotConverted
    /\ penaltyBuilt = NotConverted
    /\ IdleBest
    /\ IdleLate

CallConvertToMathjs ==
    /\ converted = NotConverted
    /\ converted' = convertToMathjs(formulaText)
    /\ UNCHANGED <<qaVars, watchVars, calcVars, formulaText, penaltyBuilt, bestVars, lateVars>>

BuildPenalty ==
    /\ penaltyBuilt = NotConverted
    /\ penaltyBuilt' = penaltyOrZero(formulaText)
    /\ UNCHANGED <<qaVars, watchVars, calcVars, formulaText, converted, bestVars, lateVars>>

NextConv == CallConvertToMathjs \/ BuildPenalty

SpecConv == InitConv /\ [][NextConv]_vars

(***************************************************************************)
(* The specification of getBestAlgorithm                                   *)
(***************************************************************************)
InitBest ==
    /\ IdleQA
    /\ IdleWatch
    /\ IdleCalc
    /\ IdleConv
    /\ algorithms \in {Keyed(l) : l \in AlgorithmLists}
    /\ bestCall = NoBest
    /\ IdleLate

CallGetBestAlgorithm ==
    /\ bestCall = NoBest
    /\ \E r \in {getBestAlgorithm(algorithms)} :
          /\ bestCall' = [ret |-> r.ret, given |-> algorithms]
          /\ algorithms' = r.input
    /\ UNCHANGED <<qaVars, watchVars, calcVars, convVars, lateVars>>

NextBest == CallGetBestAlgorithm

SpecBest == InitBest /\ [][NextBest]_vars

(***************************************************************************)
(* The specification of the models store                                   *)
(***************************************************************************)
IdleEarly ==
    /\ IdleQA
    /\ IdleWatch
    /\ IdleCalc
    /\ IdleConv
    /\ IdleBest

InitStore ==
    /\ IdleEarly
    /\ IdleStore
    /\ IdleForm
    /\ IdleCurve

StoreIds == 1..(StoreMaxId + 1)

AddModel ==
    /\ store.nextId <= StoreMaxId
    /\ \E modelData \in {<< >>} \cup {[classicalRuntimeInput |-> f] : f \in StoreFormulas \cup {""}} :
          \E r \in {addModel(store, modelData)} :
             /\ store' = r.st
             /\ storeCall' = [op |-> "addModel", ret |-> r.ret, before |-> store]
    /\ UNCHANGED <<qaVars, watchVars, pureVars, curveVars, removedIds, edits, formVars>>

RemoveModel ==
    /\ \E id \in StoreIds :
          /\ store' = removeModel(store, id)
          /\ removedIds' = IF FindIndex(store, id) # 0 THEN removedIds \cup {id} ELSE removedIds
          /\ storeCall' = [op |-> "removeModel", id |-> id, before |-> store]
    /\ UNCHANGED <<qaVars, watchVars, pureVars, curveVars, edits, formVars>>

\* Form.vue lines 333 and 402: the form passes its whole local model, id
\* and nested objects included
FormUpdates(id) ==
    {[JsonClone(InitialStore.models[1], "form", id) EXCEPT !.classicalRuntimeInput = f] :
        f \in StoreFormulas}

UpdateModel ==
    /\ edits < MaxEdits
    /\ \E id \in StoreIds : \E updates \in FormUpdates(id) :
          /\ store' = updateModel(store, id, updates)
          /\ storeCall' = [op |-> "updateModel", id |-> id, before |-> store]
    /\ edits' = edits + 1
    /\ UNCHANGED <<qaVars, watchVars, pureVars, curveVars, removedIds, formVars>>

\* the holder of a model (the form of that id, the caller of
\* duplicateModel) changes one of its nested objects in place
EditNested ==
    /\ edits < MaxEdits
    /\ \E i \in 1..Len(store.models), kind \in NestedKinds :
          /\ store' = [store EXCEPT !.heap[store.models[i][kind]] = "edited"]
          /\ storeCall' = [op |-> "editNested", id |-> store.models[i].id, before |-> store]
    /\ edits' = edits + 1
    /\ UNCHANGED <<qaVars, watchVars, pureVars, curveVars, removedIds, formVars>>

DuplicateModel ==
    /\ store.nextId <= StoreMaxId
    /\ \E id \in StoreIds :
          \E r \in {duplicateModel(store, id)} :
             /\ store' = r.st
             /\ storeCall' = [op |-> "duplicateModel", id |-> id, ret |-> r.ret, before |-> store]
    /\ UNCHANGED <<qaVars, watchVars, pureVars, curveVars, removedIds, edits, formVars>>

NextStore == AddModel \/ RemoveModel \/ UpdateModel \/ EditNested \/ DuplicateModel

SpecStore == InitStore /\ [][NextStore]_vars

(***************************************************************************)
(* The specification of the form and its runtime dialog                    *)
(***************************************************************************)
InitForm ==
    /\ IdleEarly
    /\ IdleStore
    /\ variants \in VariantTables
    /\ IdleFormState
    /\ IdleCurve

\* the scheduler has nothing left to run: the next thing is a user event
FormIdle == jobs = << >> /\ tickCallbacks = 0

\* the template is rendered only with a model (v-if="model")
UserEvent == FormIdle /\ formModel # Null /\ formEvents < MaxFormEvents

\* Form.vue lines 223-233
Mount ==
    /\ ~formMounted
    /\ formMounted' = TRUE
    /\ LET index == FindIndex(store, FormModelId)
           storeModel == store.models[index]
           clone == JsonClone(storeModel, "form", FormModelId)
       IN  IF index = 0
           THEN UNCHANGED <<store, formModel, selectedProblem, jobs>>
           ELSE /\ formModel' = clone
                /\ store' = [store EXCEPT !.heap = HeapWithClone(@, storeModel, clone)]
                /\ selectedProblem' = FindProblem(clone.problemName)
                /\ jobs' = QueueJob(QueueJob(jobs, "model", "mount"), "selectedProblem", "mount")
    /\ UNCHANGED <<formEvents, qaVars, watchVars, pureVars, curveVars, removedIds, storeCall, edits, variants,
                   selectedAlgorithm, isUpdatingFromAlgorithm, watched, tickCallbacks,
                   dialog, typed, algRun, problemRun, saveRun, syncRun>>

\* the user picks a problem in the selector (line 445), or clears it
SelectProblem ==
    /\ UserEvent
    /\ formEvents' = formEvents + 1
    /\ ~dialog.open
    /\ \E p \in {problems[i] : i \in 1..Len(problems)} \cup {Null} :
          /\ p # selectedProblem
          /\ selectedProblem' = p
    /\ jobs' = QueueJob(jobs, "selectedProblem", "problem")
    /\ UNCHANGED <<qaVars, watchVars, pureVars, curveVars, storeVars, variants, formMounted, formModel,
                   selectedAlgorithm, isUpdatingFromAlgorithm, watched, tickCallbacks,
                   dialog, typed, algRun, problemRun, saveRun, syncRun>>

\* lines 261-313
RunProblemWatcher ==
    /\ jobs # << >>
    /\ Head(jobs).watcher = "selectedProblem"
    /\ LET newProblem == selectedProblem
           oldProblem == watched.problem
       IN  /\ watched' = [watched EXCEPT !.problem = newProblem]
           /\ IF \/ newProblem = oldProblem
                 \/ newProblem = Null
                 \/ formModel = Null
                 \/ (oldProblem # Null /\ newProblem.problemName = oldProblem.problemName)
              THEN /\ jobs' = Tail(jobs)
                   /\ UNCHANGED <<formModel, selectedAlgorithm, isUpdatingFromAlgorithm,
                                  tickCallbacks, problemRun>>
              ELSE \E u \in {problemUpdates(newProblem, variants)} :
                   \E after \in {ObjectAssign(formModel, u.updates)} :
                      /\ isUpdatingFromAlgorithm' = TRUE
                      /\ selectedAlgorithm' = u.selected
                      /\ formModel' = after
                      /\ jobs' =
                            QueueJobIf(after # formModel,
                                QueueJobIf(u.selected.quantum # selectedAlgorithm.quantum,
                                    QueueJobIf(u.selected.classical # selectedAlgorithm.classical,
                                               Tail(jobs), "selectedClassicalAlgorithm", "problem"),
                                    "selectedQuantumAlgorithm", "problem"),
                                "model", "problem")
                      /\ tickCallbacks' = tickCallbacks + 1
                      /\ problemRun' =
                            [op |-> "problem", problem |-> newProblem,
                             best |-> [kind \in {"classical", "quantum"} |->
                                          IF HasVariants(newProblem.problemName)
                                          THEN getBestAlgorithm(variants[kind]).ret
                                          ELSE Undefined],
                             after |-> after]
    /\ UNCHANGED <<formEvents, qaVars, watchVars, pureVars, curveVars, storeVars, variants, formMounted,
                   selectedProblem, dialog, typed, algRun, saveRun, syncRun>>

\* lines 316-328
AlgorithmWatcherJob(kind, watcher) ==
    /\ LET newAlg == selectedAlgorithm[kind]
           called == newAlg # watched[kind]
           returns == algorithmWatcherReturns(newAlg, isUpdatingFromAlgorithm, formModel)
           after == IF called /\ ~returns
                    THEN ObjectAssign(formModel, algorithmFormulas(newAlg, kind))
                    ELSE formModel
       IN  /\ watched' = [watched EXCEPT ![kind] = newAlg]
           /\ formModel' = after
           /\ jobs' = QueueJobIf(after # formModel, Tail(jobs), "model", Head(jobs).cause)
           /\ algRun' = [op |-> watcher, cause |-> Head(jobs).cause, newAlg |-> newAlg,
                         locked |-> isUpdatingFromAlgorithm, wrote |-> called /\ ~returns]
    /\ UNCHANGED <<formEvents, qaVars, watchVars, pureVars, curveVars, storeVars, variants, formMounted,
                   selectedProblem, selectedAlgorithm, isUpdatingFromAlgorithm,
                   tickCallbacks, dialog, typed, problemRun, saveRun, syncRun>>

RunClassicalWatcher ==
    /\ jobs # << >>
    /\ Head(jobs).watcher = "selectedClassicalAlgorithm"
    /\ AlgorithmWatcherJob("classical", "selectedClassicalAlgorithm")

RunQuantumWatcher ==
    /\ jobs # << >>
    /\ Head(jobs).watcher = "selectedQuantumAlgorithm"
    /\ AlgorithmWatcherJob("quantum", "selectedQuantumAlgorithm")

\* lines 331-335
RunModelWatcher ==
    /\ jobs # << >>
    /\ Head(jobs).watcher = "model"
    /\ jobs' = Tail(jobs)
    /\ \E st \in {IF formModel # Null THEN updateModel(store, FormModelId, formModel) ELSE store} :
          /\ store' = st
          /\ syncRun' = [op |-> "sync", before |-> store, after |-> st]
    /\ UNCHANGED <<formEvents, qaVars, watchVars, pureVars, curveVars, removedIds, storeCall, edits, variants,
                   formMounted, formModel, selectedProblem, selectedAlgorithm,
                   isUpdatingFromAlgorithm, watched, tickCallbacks, dialog, typed,
                   algRun, problemRun, saveRun>>

\* lines 310-312: the nextTick callback, run once the job queue has drained
RunNextTick ==
    /\ jobs = << >>
    /\ tickCallbacks > 0
    /\ tickCallbacks' = tickCallbacks - 1
    /\ isUpdatingFromAlgorithm' = FALSE
    /\ UNCHANGED <<formEvents, qaVars, watchVars, pureVars, curveVars, storeVars, variants, formMounted, formModel,
                   selectedProblem, selectedAlgorithm, watched, jobs, dialog, typed,
                   algRun, problemRun, saveRun, syncRun>>

\* line 352
FormRemoveModel ==
    /\ UserEvent
    /\ formEvents' = formEvents + 1
    /\ ~dialog.open
    /\ FindIndex(store, FormModelId) # 0
    /\ store' = removeModel(store, FormModelId)
    /\ removedIds' = removedIds \cup {FormModelId}
    /\ UNCHANGED <<qaVars, watchVars, pureVars, curveVars, storeCall, edits, variants, formMounted, formModel, selectedProblem,
                   selectedAlgorithm, isUpdatingFromAlgorithm, watched, jobs, tickCallbacks,
                   dialog, typed, algRun, problemRun, saveRun, syncRun>>

\* line 353
FormDuplicateModel ==
    /\ UserEvent
    /\ formEvents' = formEvents + 1
    /\ ~dialog.open
    /\ store.nextId <= StoreMaxId
    /\ store' = duplicateModel(store, FormModelId).st
    /\ UNCHANGED <<qaVars, watchVars, pureVars, curveVars, removedIds, storeCall, edits, variants, formMounted, formModel, selectedProblem,
                   selectedAlgorithm, isUpdatingFromAlgorithm, watched, jobs, tickCallbacks,
                   dialog, typed, algRun, problemRun, saveRun, syncRun>>

DialogUnchanged ==
    UNCHANGED <<qaVars, watchVars, pureVars, curveVars, storeVars, variants, formMounted, formModel,
                selectedProblem, selectedAlgorithm, isUpdatingFromAlgorithm, watched, jobs,
                tickCallbacks, algRun, problemRun, saveRun, syncRun>>

\* ProblemRuntimeAdvanced.vue line 175: opening the dialog resets it
OpenDialog ==
    /\ UserEvent
    /\ formEvents' = formEvents + 1
    /\ ~dialog.open
    /\ dialog' = [reset(dialog, formModel, selectedAlgorithm) EXCEPT !.open = TRUE]
    /\ UNCHANGED typed
    /\ DialogUnchanged

\* lines 204-205, 214-215, 244-245, 254-255, 273-274: the user types into an
\* input and leaves it
TypeInput ==
    /\ UserEvent
    /\ formEvents' = formEvents + 1
    /\ dialog.open
    /\ typed < MaxTyped
    /\ typed' = typed + 1
    /\ \E inputName \in InputNames, text \in TypedTexts :
          dialog' = validateInput([dialog EXCEPT !.fields[inputName] = text], inputName,
                                  inputName # "classicalWork")
    /\ DialogUnchanged

\* lines 190 and 230: the user picks one of the available algorithms
SelectInDialog ==
    /\ UserEvent
    /\ formEvents' = formEvents + 1
    /\ dialog.open
    /\ \E kind \in {"classical", "quantum"} :
          \E i \in DOMAIN AvailableAlgorithms(variants, selectedProblem, kind) :
             LET alg == AvailableAlgorithms(variants, selectedProblem, kind)[i]
             IN  /\ alg # dialog.selected[kind]
                 /\ dialog' = selectionWatchers(dialog, [dialog EXCEPT !.selected[kind] = alg])
    /\ UNCHANGED typed
    /\ DialogUnchanged

\* lines 114-117
Cancel ==
    /\ UserEvent
    /\ formEvents' = formEvents + 1
    /\ dialog.open
    /\ dialog' = [reset(dialog, formModel, selectedAlgorithm) EXCEPT !.open = FALSE]
    /\ UNCHANGED typed
    /\ DialogUnchanged

\* ProblemRuntimeAdvanced.vue lines 91-112 with the two handlers of the
\* form its events run: updateFunctions (375-378), onAlgorithmChange (380-404)
Save ==
    /\ UserEvent
    /\ formEvents' = formEvents + 1
    /\ dialog.open
    /\ \E r \in {save(dialog)} :
          /\ dialog' = r.dialog
          /\ IF ~r.emitted
             THEN /\ saveRun' = [op |-> "save", fields |-> dialog.fields,
                                 selected |-> dialog.selected, emitted |-> FALSE,
                                 open |-> r.dialog.open,
                                 before |-> formModel, after |-> formModel]
                  /\ UNCHANGED <<formModel, selectedAlgorithm, jobs, store, syncRun>>
             ELSE LET c == r.updateAlgorithmChange.classicalAlgorithm
                      q == r.updateAlgorithmChange.quantumAlgorithm
                      sel == [classical |-> IF c # Null THEN c ELSE selectedAlgorithm.classical,
                              quantum |-> IF q # Null THEN q ELSE selectedAlgorithm.quantum]
                      after == onAlgorithmChangeModel(
                                   updateFunctions(formModel, r.updateFunctions), c, q)
                      st == updateModel(store, FormModelId, after)
                  IN  /\ formModel' = after
                      /\ selectedAlgorithm' = sel
                      /\ store' = st
                      /\ jobs' =
                            QueueJobIf(sel.quantum # selectedAlgorithm.quantum,
                                QueueJobIf(sel.classical # selectedAlgorithm.classical,
                                    QueueJobIf(after # formModel, jobs, "model", "manual"),
                                    "selectedClassicalAlgorithm", "manual"),
                                "selectedQuantumAlgorithm", "manual")
                      /\ syncRun' = [op |-> "sync", before |-> store, after |-> st]
                      /\ saveRun' = [op |-> "save", fields |-> dialog.fields,
                                     selected |-> dialog.selected, emitted |-> TRUE,
                                     open |-> r.dialog.open,
                                     before |-> formModel, after |-> after]
    /\ UNCHANGED <<qaVars, watchVars, pureVars, curveVars, removedIds, storeCall, edits, variants,
                   formMounted, selectedProblem, isUpdatingFromAlgorithm, watched,
                   tickCallbacks, typed, algRun, problemRun>>

NextForm ==
    \/ Mount
    \/ SelectProblem
    \/ RunProblemWatcher
    \/ RunClassicalWatcher
    \/ RunQuantumWatcher
    \/ RunModelWatcher
    \/ RunNextTick
    \/ FormRemoveModel
    \/ FormDuplicateModel
    \/ OpenDialog
    \/ TypeInput
    \/ SelectInDialog
    \/ Cancel
    \/ Save

SpecForm == InitForm /\ [][NextForm]_vars


(***************************************************************************)
(* Properties                                                              *)
(***************************************************************************)
Quiescent == timers = {} /\ rafQueue = << >>

Queued(r) == \E i \in 1..Len(rafQueue) : rafQueue[i].req = r

Outputs == {currentAdvantageData, quantumEconomicAdvantageData, roadmapCharacteristicsData}

\* C1 as stated: a change followed by another inside the quiet window is
\* never calculated, and once nothing is pending the last change of every
\* burst of several changes (its model not null) has been calculated
\* exactly once.
C1_ExactlyOncePerBurst ==
    \A r \in 1..reqCount :
        /\ r \in gapShort => runs[r] = 0
        /\ (r - 1) \in gapShort /\ r \notin gapShort /\ r \notin nullReqs /\ Quiescent
              => runs[r] = 1

\* C1 amended: a change followed by another inside the quiet window never
\* fires its timer and is never calculated; no change is calculated more
\* than once; the last change of a burst is calculated exactly once when its
\* timer has fired with a model that is not null and its frame has run.
C1_AtMostOncePerBurst ==
    \A r \in 1..reqCount :
        /\ r \in gapShort => runs[r] = 0 /\ r \notin fired
        /\ runs[r] <= 1
        /\ r \in fired /\ r \notin nullReqs /\ ~Queued(r) => runs[r] = 1
        /\ runs[r] = 1 => r \in fired /\ r \notin nullReqs

C1_Witness ==
    \E r \in 2..reqCount : (r - 1) \in gapShort /\ r \notin gapShort /\ runs[r] = 1

\* C2: at any moment at most one calculation request is pending, counting a
\* scheduled timeout and a queued animation frame alike.
C2_AtMostOnePending == Cardinality(timers) + Len(rafQueue) <= 1

\* C3: once the pass for the latest request has run (no exception cut it
\* short), all three published outputs are computed from that request's
\* model.
C3_OutputsFromLatest ==
    lastPass.req = reqCount /\ lastPass.current # "throw" /\ lastPass.economic # "throw"
        => \A out \in Outputs : out.src = lastPass.src

\* C8: neither calculation lets an exception escape; every pass started
\* completes both calculations.
C8_NoExceptionEscapes ==
    lastPass.current # "throw" /\ lastPass.economic \notin {"throw", "notrun"}

Called == qaRet.path # "none"

\* lines 115-130: what calculateCurrentAdvantage shows as nStar for a
\* returned advantage
nStarOf(advantage) == IF advantage = PosInf THEN MinusOne ELSE advantage

\* C4: when the bisection reports null, getQuantumAdvantage returns Infinity
\* and calculateCurrentAdvantage shows nStar = -1.
C4_NeverIsInfinity ==
    qaRet.path = "bisect" /\ qaRet.bis = Null
        => qaRet.ret = PosInf /\ nStarOf(qaRet.ret) = MinusOne

\* C5: the value returned when the bisection reports null differs from the
\* value returned for a bisection root of 0.
C5_NullDistinctFromZeroRoot ==
    qaRet.path = "bisect" /\ qaRet.bis = Null => qaRet.ret # QAResultOf(Fin(0))

\* C6: when the advantage function is positive at the lower bound n = 2 the
\* call returns log10(2) at once, with no pre-scan step and no bisection.
C6_ImmediateAtLowerBound ==
    Called /\ IsFinite(QARaw(qaArgs)) /\ JsGtZero(QAEvaluate(qaArgs, 0))
        => /\ qaRet.ret = Fin(Log10Two)
           /\ qaRet.path = "immediate"
           /\ qaRet.iterations = 0
           /\ qaRet.bis = NotCalled

C6_Witness ==
    /\ qaRet.path = "immediate"
    /\ qaArgs.lcf = "n^3" /\ qaArgs.lqf = "n^2" /\ qaArgs.lpf = "1"
    /\ qaArgs.hardwareSlowdown = Fin(0) /\ qaArgs.yearOff = 0

\* C7: every finite value returned lies in the bracket, log10(2) <= v <= 100.
C7_FiniteWithinBracket ==
    Called /\ IsFinite(qaRet.ret)
        => Log10Two <= qaRet.ret.v /\ qaRet.ret.v <= UpperExp * 1000

\* C9: evaluate(n) never throws, and is -Infinity whenever one of the three
\* logged functions throws or yields a non-number at n.
C9_EvaluateFailureIsNegInf ==
    qaEval.at >= 0
        => /\ qaEval.val # Throw
           /\ qaEval.failed => qaEval.val = NegInf

\* every grid point fails: one of the logged functions throws there
AllPointsFail(a) ==
    \A g \in 0..GridTop :
        \E f \in {a.lcf, a.lqf, a.lpf} : LoggedValue(f, g, QAPLog(a)) = Throw

NeverResult == QACall([DefaultQAArgs EXCEPT !.lcf = "n", !.lqf = "n^2"]).ret

\* C10: when the advantage function fails at every size, the result is
\* "undefined": not the always value, not the never value and not a finite
\* value.
C10_AllFailIsUndefined ==
    Called /\ IsFinite(QARaw(qaArgs)) /\ AllPointsFail(qaArgs)
        => /\ qaRet.ret # Fin(Log10Two)
           /\ qaRet.ret # NeverResult
           /\ qaRet.ret # PosInf
           /\ ~IsFinite(qaRet.ret)

\* C11: both year-adjusted log terms are floored at zero: the adjustment
\* evaluate subtracts is a number >= 0, and the processors exponent is >= 0
\* (so that p = 10^exponent >= 1).
C11_AdjustmentsFlooredAtZero ==
    Called
        => /\ IsFinite(QARaw(qaArgs))
                 => IsFinite(QAAdjustment(qaArgs)) /\ QAAdjustment(qaArgs).v >= 0
           /\ QAPLog(qaArgs).k \in {"fin", "inf"} /\ QAPLog(qaArgs).v >= 0

C11_Witness ==
    /\ Called
    /\ qaArgs.hardwareSlowdown = Fin(0) /\ qaArgs.quantumImprovementRate = 90
    /\ qaArgs.processors = Fin(0) /\ qaArgs.costImprovementRate = 90
    /\ qaArgs.yearOff = MaxYearOff
    /\ QAAdjustment(qaArgs) = Fin(0) /\ QAPLog(qaArgs) = Fin(0)

C16_CallTerminates ==
    Called
        => /\ qaRet.path \in {"nonfinite", "immediate", "bisect"}
           /\ qaRet.ret.k \in {"fin", "inf"}
           /\ qaRet.iterations <= PrescanMaxIter
           /\ qaRet.low <= PrescanTop

\* a function that is -Infinity at every size: the pre-scan runs to its cap
C16_Witness ==
    /\ Called /\ qaArgs.lcf = "f(n)" /\ IsFinite(QARaw(qaArgs))
    /\ qaRet.path = "bisect" /\ qaRet.iterations = PrescanMaxIter

C13_PassIsFunctionOfModel ==
    \A p, q \in passLog : p.src = q.src => p.result = q.result


\* C14: for each improvement rate and every configured percentage r, 0
\* included, the rate that enters the adjustments is percentageToFraction(r)
\* of the model's own r, and calculateCurrentAdvantage and
\* calculateQuantumEconomicAdvantage use the same converted rate for the
\* same model.
C14_RatesConvertedAsConfigured ==
    /\ calcCurrent.ran =>
          /\ calcCurrent.params.quantumImprovementRate
                = percentageToFraction(calcModel.quantumImprovementRate)
          /\ calcCurrent.params.costImprovementRate
                = percentageToFraction(calcModel.costImprovementRate)
    /\ calcEconomic.ran =>
          /\ calcEconomic.params.quantumImprovementRate
                = percentageToFraction(calcModel.quantumImprovementRate)
          /\ calcEconomic.params.costImprovementRate
                = percentageToFraction(calcModel.costImprovementRate)
          /\ calcEconomic.params.ratioImprovementRate
                = percentageToFraction(calcModel.ratioImprovementRate)
    /\ calcCurrent.ran /\ calcEconomic.ran =>
          /\ calcCurrent.params.quantumImprovementRate = calcEconomic.params.quantumImprovementRate
          /\ calcCurrent.params.costImprovementRate = calcEconomic.params.costImprovementRate

\* the economic calculation has run and published
EconomicOk == calcEconomic.ran /\ calcEconomic.result.outcome = "ok"

\* the radius the crossover years published call for
ExpectedRadius(econ) ==
    LET valid == {t \in {econ.tStar, econ.tCostStar} : IsFinite(t)}
        latest == CHOOSE t \in valid : \A u \in valid : u.v <= t.v
        raw == IF valid = {} THEN RadiusFloor ELSE (latest.v - CurrentYear) + RadiusFloor
    IN  IF raw > RadiusCap THEN RadiusCap ELSE IF raw < RadiusFloor THEN RadiusFloor ELSE raw

\* C18: the year search radius is within [5, 100]: it is (latest valid
\* crossover year - currentYear) + 5 clamped to [5, 100], 5 when neither
\* crossover is valid, and the year range searched and sampled never
\* extends beyond currentYear + 100.
C18_RadiusAndRangeWithin100 ==
    EconomicOk =>
        LET econ == calcEconomic.result.econ
        IN  /\ econ.yearRadius \in RadiusFloor..RadiusCap
            /\ econ.yearRadius = ExpectedRadius(econ)
            /\ \A y \in DOMAIN econ.quantumFeasible : y <= RadiusCap
            /\ \A t \in {econ.tStar, econ.tCostStar} :
                  IsFinite(t) => t.v <= CurrentYear + RadiusCap

\* C18 as amended: the radius is within [5, 100] and follows the latest
\* valid crossover year, the sampled years stay within currentYear + 100,
\* and the crossover search covers currentYear .. 3000: a crossover year
\* published can lie beyond currentYear + 100, never beyond 3000.
C18_RadiusClampedSearchTo3000 ==
    EconomicOk =>
        LET econ == calcEconomic.result.econ
        IN  /\ econ.yearRadius \in RadiusFloor..RadiusCap
            /\ econ.yearRadius = ExpectedRadius(econ)
            /\ \A y \in DOMAIN econ.quantumFeasible : y <= econ.yearRadius
            /\ econ.yearRadius \in DOMAIN econ.quantumFeasible
            /\ \A t \in {econ.tStar, econ.tCostStar} :
                  IsFinite(t) => t.v \in CurrentYear..YearHigh

\* a crossover more than 100 years ahead: the radius is capped
C18_Witness ==
    /\ EconomicOk
    /\ calcEconomic.result.econ.tStar.k = "fin"
    /\ calcEconomic.result.econ.tStar.v > CurrentYear + RadiusCap
    /\ calcEconomic.result.econ.yearRadius = RadiusCap

\* m and m2 differ at most in the physical-logical ratio and its rate
SameButRatio(m, m2) ==
    m2 = [m EXCEPT !.physicalLogicalQubitsRatio = m2.physicalLogicalQubitsRatio,
                   !.ratioImprovementRate = m2.ratioImprovementRate]

\* getQuantumFeasible as calculateQuantumEconomicAdvantage calls it for m
FeasibleOf(m, y) ==
    getQuantumFeasible(y, m.roadmap,
                       IF m.physicalLogicalQubitsRatio = 0 THEN 1000 ELSE m.physicalLogicalQubitsRatio,
                       economicParams(m).ratioImprovementRate,
                       IF m.qubitToProblemSize = "" THEN "q" ELSE m.qubitToProblemSize,
                       IF m.roadmapUnit = "" THEN "physical" ELSE m.roadmapUnit,
                       m.extrapolationType)

\* C19: when the form declares the physical-logical qubit ratio unused
\* (roadmapUnit is not "physical"), two models that differ only in
\* physicalLogicalQubitsRatio and ratioImprovementRate give equal
\* getQuantumFeasible values for every year, and equal published curves
\* and crossovers.
C19_LockedRatioIsUnused ==
    EconomicOk /\ calcModel.roadmapUnit # "physical" =>
        \A m2 \in CalcModels :
            SameButRatio(calcModel, m2) =>
                /\ EconomicCalc[m2].outcome = "ok"
                /\ EconomicCalc[m2].econ = calcEconomic.result.econ
                /\ \A y \in 0..YearSpan : FeasibleOf(m2, y) = FeasibleOf(calcModel, y)

\* a run on a logical-unit model, and a model with another ratio and rate
C19_Witness ==
    /\ EconomicOk
    /\ calcModel.roadmapUnit = "logical"
    /\ \E m2 \in CalcModels :
          /\ SameButRatio(calcModel, m2)
          /\ m2.physicalLogicalQubitsRatio # calcModel.physicalLogicalQubitsRatio
          /\ m2.ratioImprovementRate # calcModel.ratioImprovementRate


\* an empty or whitespace-only text, or a placeholder with or without
\* surrounding whitespace
NoFormulaText(f) == f = NullFormula \/ Trim(f) \in {<< >>, <<"-">>, <<"?">>}

\* C15: an empty or whitespace-only formula and the placeholders "-" and
\* "?", with or without surrounding whitespace, are a failure, never the
\* value zero: convertToMathjs returns null for each of them, and the
\* calculation does not replace an empty penalty or quantum-work formula by
\* the formula "0".
C15_NoFormulaIsFailure ==
    /\ converted # NotConverted /\ NoFormulaText(formulaText) => converted = NullFormula
    /\ penaltyBuilt # NotConverted /\ formulaText \in {NullFormula, << >>} => penaltyBuilt # ZeroFormula


\* a is before b in the order of (speed, work, span, space)
LexBefore(a, b) ==
    \E j \in 1..4 :
        /\ a.metrics[Priorities[j]] < b.metrics[Priorities[j]]
        /\ \A i \in 1..(j - 1) : a.metrics[Priorities[i]] = b.metrics[Priorities[i]]

\* C20: getBestAlgorithm returns an available algorithm that is minimal in
\* the lexicographic order of (speed, work, span, space) among the
\* available ones, the earliest of the list among equals; it returns the
\* first list element only when none is available, and it leaves the list
\* unchanged.
C20_BestIsLexMinimalAvailable ==
    bestCall # NoBest =>
        LET given == bestCall.given
            avail == {i \in 1..Len(given) : given[i].available}
        IN  /\ algorithms = given
            /\ avail = {} => bestCall.ret = (IF given = << >> THEN Undefined ELSE given[1])
            /\ avail # {} =>
                  \E i \in avail :
                      /\ bestCall.ret = given[i]
                      /\ \A j \in avail : ~LexBefore(given[j], given[i])
                      /\ \A j \in avail : j < i => LexBefore(given[i], given[j])

\* the best is neither first nor alone: an unavailable variant leads the
\* list and the last two metrics decide between two available ones
C20_Witness ==
    /\ bestCall # NoBest
    /\ Len(algorithms) = MaxAlgorithms
    /\ ~algorithms[1].available
    /\ bestCall.ret = algorithms[3]
    /\ algorithms[2].available
    /\ algorithms[2].metrics.speed = algorithms[3].metrics.speed
    /\ algorithms[2].metrics.work = algorithms[3].metrics.work


ModelIds(st) == {st.models[i].id : i \in 1..Len(st.models)}

\* C21: after any sequence of addModel, duplicateModel, removeModel and
\* updateModel calls the models of the store have pairwise distinct ids,
\* every id is smaller than nextId, and the id of a removed model is never
\* given to a later model.
C21_IdsUniqueAndFresh ==
    /\ \A i, j \in 1..Len(store.models) : i # j => store.models[i].id # store.models[j].id
    /\ \A id \in ModelIds(store) : id < store.nextId
    /\ ModelIds(store) \cap removedIds = {}
    /\ \A id \in removedIds : id < store.nextId

\* a model was removed, another one was created after that and updated
C21_Witness ==
    /\ removedIds # {}
    /\ storeCall.op = "updateModel"
    /\ \E id \in ModelIds(store) : \E gone \in removedIds : gone < id /\ storeCall.id = id

\* C22: duplicateModel(id) returns null and leaves the store unchanged when
\* no model has that id; otherwise it appends exactly one model that equals
\* the original in every field except id and leaves the existing models
\* unchanged; the copy is independent: an update of one model, its nested
\* roadmap and advancedSlowdown included, changes no other model.
C22_DuplicateIsIndependentCopy ==
    /\ storeCall.op = "duplicateModel" =>
          LET before == storeCall.before
              index == FindIndex(before, storeCall.id)
              n == Len(before.models)
          IN  IF index = 0
              THEN storeCall.ret = Null /\ store = before
              ELSE /\ Len(store.models) = n + 1
                   /\ SubSeq(store.models, 1, n) = before.models
                   /\ SubSeq(DeepModels(store), 1, n) = DeepModels(before)
                   /\ storeCall.ret = store.models[n + 1]
                   /\ store.models[n + 1].id # storeCall.id
                   /\ Deep(store, store.models[n + 1])
                         = [Deep(before, before.models[index]) EXCEPT !.id = store.models[n + 1].id]
    /\ storeCall.op \in {"updateModel", "editNested"} =>
          /\ Len(store.models) = Len(storeCall.before.models)
          /\ \A i \in 1..Len(store.models) :
                store.models[i].id # storeCall.id =>
                    Deep(store, store.models[i]) = Deep(storeCall.before, storeCall.before.models[i])

\* a model whose roadmap or advancedSlowdown was edited has been duplicated
C22_Witness ==
    /\ storeCall.op = "duplicateModel"
    /\ storeCall.ret # Null
    /\ \E kind \in NestedKinds : store.heap[storeCall.ret[kind]] = "edited"

(***************************************************************************)
(* The specification of curve sampling                                     *)
(***************************************************************************)
CurvePoints ==
    [cqf : PointOutcomes, cpf : PointOutcomes, ccf : PointOutcomes,
     cqfc : PointOutcomes, ccfc : {Throw, Fin(2000)},
     hardwareSlowdown : HardwareSlowdowns, costFactor : CostFactors]

InitCurve ==
    /\ IdleEarly
    /\ IdleStore
    /\ IdleForm
    /\ curvePoint \in CurvePoints
    /\ curveSteps = NotSampled

\* the four maps of lines 156-165 at the sample point
SamplePoint ==
    /\ ~curveSteps.sampled
    /\ curveSteps' = [sampled |-> TRUE] @@ sampleSteps(curvePoint)
    /\ UNCHANGED <<qaVars, watchVars, pureVars, storeVars, formVars, curvePoint>>

NextCurve == SamplePoint

SpecCurve == InitCurve /\ [][NextCurve]_vars

(***************************************************************************)
(* The form: the lock of the problem change                                *)
(***************************************************************************)
\* C23: an algorithm watcher set off by a problem change runs under the lock
\* and writes no formula of the model; whenever the lock is held a nextTick
\* callback that releases it is pending, so the lock is free once the
\* scheduler is idle; an algorithm watcher set off by a manual selection
\* writes the model, and a dialog save with an algorithm selected leaves the
\* model with that algorithm's formulas.
C23_LockHoldsOffAlgorithmWatchers ==
    /\ (algRun.op # "none" /\ algRun.cause = "problem") => (algRun.locked /\ ~algRun.wrote)
    /\ isUpdatingFromAlgorithm => tickCallbacks > 0
    /\ FormIdle => ~isUpdatingFromAlgorithm
    /\ (algRun.op # "none" /\ algRun.cause = "manual" /\ algRun.newAlg # Null) => algRun.wrote
    /\ (saveRun.op # "none" /\ saveRun.emitted) =>
          \A kind \in {"classical", "quantum"} :
             saveRun.selected[kind] # Null =>
                \A f \in {RuntimeFieldOf(kind), WorkFieldOf(kind)} :
                   saveRun.after[f] = algorithmFormulas(saveRun.selected[kind], kind)[f]

\* a problem change has selected an algorithm, the watcher of that selection
\* has run under the lock, and the lock has been released since
C23_Witness ==
    /\ algRun.op # "none"
    /\ algRun.cause = "problem"
    /\ algRun.locked
    /\ algRun.newAlg # Null
    /\ problemRun.op # "none"
    /\ FormIdle
    /\ ~isUpdatingFromAlgorithm

(***************************************************************************)
(* The form: the formulas after a problem change                           *)
(***************************************************************************)
\* the formula the problem change is to give: the best algorithm's when it
\* has one, the problem's fallback otherwise
ExpectedFormula(run, kind, field) ==
    LET best == run.best[kind]
        own == OrElse(Prop(best, field),
                      Prop(best, IF field = RuntimeFieldOf(kind)
                                 THEN "runtimeFormula" ELSE "workFormula"))
    IN  IF Falsy(own) THEN run.problem[field] ELSE own

\* C24: after a problem change each of the four formulas of the model is
\* the best algorithm's formula when that algorithm has one and the
\* problem's fallback otherwise, and none is null or undefined.
C24_FormulasAreBestOrFallback ==
    problemRun.op # "none" =>
        \A kind \in {"classical", "quantum"} :
           \A f \in {RuntimeFieldOf(kind), WorkFieldOf(kind)} :
              /\ problemRun.after[f] = ExpectedFormula(problemRun, kind, f)
              /\ ~Falsy(problemRun.after[f])

(***************************************************************************)
(* The form: the sync to the store                                         *)
(***************************************************************************)
IsOtherModel(m) == m.id # FormModelId

OtherModels(st) == SelectSeq(st.models, IsOtherModel)

\* C25: once the watchers have run, the store entry of the form's id equals
\* the local model; a model removed from the store is not in it again; a
\* sync changes no other model, and changes nothing when the store has no
\* entry of the form's id.
C25_SyncKeepsStoreEntryEqual ==
    /\ (FormIdle /\ formModel # Null /\ FindIndex(store, FormModelId) # 0) =>
          store.models[FindIndex(store, FormModelId)] = formModel
    /\ FormModelId \in removedIds => FindIndex(store, FormModelId) = 0
    /\ syncRun.op # "none" =>
          /\ OtherModels(syncRun.after) = OtherModels(syncRun.before)
          /\ syncRun.after.heap = syncRun.before.heap
          /\ syncRun.after.nextId = syncRun.before.nextId
          /\ FindIndex(syncRun.before, FormModelId) = 0 => syncRun.after = syncRun.before

\* the form's model has been removed while a copy of it is in the store,
\* and a sync has run since with a local model that had changed
C25_Witness ==
    /\ FormModelId \in removedIds
    /\ syncRun.op # "none"
    /\ FindIndex(syncRun.before, FormModelId) = 0
    /\ syncRun.before.models # << >>
    /\ formModel # Null
    /\ formModel.problemName = "Traveling Salesman"
    /\ FormIdle

(***************************************************************************)
(* The runtime dialog: save                                                *)
(***************************************************************************)
AllInputsValidate(fields) == \A i \in InputNames : Validates(i, fields[i])

\* C27: save emits its two events and closes the dialog only if the five
\* inputs, as they stand when save is pressed, validate; otherwise nothing
\* is emitted, the dialog stays open and the parent's model is unchanged.
C27_SaveOnlyWithValidInputs ==
    saveRun.op # "none" =>
        /\ saveRun.emitted => (AllInputsValidate(saveRun.fields) /\ ~saveRun.open)
        /\ ~AllInputsValidate(saveRun.fields) =>
              (~saveRun.emitted /\ saveRun.open /\ saveRun.after = saveRun.before)

\* C28: after a successful save the four runtime and work formulas of the
\* model are the texts the inputs of the dialog held when save was pressed.
C28_SavedFormulasAreTheInputs ==
    (saveRun.op # "none" /\ saveRun.emitted) =>
        \A f \in RuntimeFields : saveRun.after[f] = saveRun.fields[f]

(***************************************************************************)
(* Curve sampling: a failing quantum function                              *)
(***************************************************************************)
\* the converted function fails to evaluate or overflows at the point
FailsAt(outcome) == outcome.k \in {"throw", "nan", "inf"}

\* C26: at a sample point where the quantum runtime or the penalty function
\* fails to evaluate or overflows, sampling does not throw and the quantum
\* curve carries the sentinel 99999; where the classical function fails, the
\* classical curve carries -1.
C26_FailureGivesSentinel ==
    curveSteps.sampled =>
        /\ ~curveSteps.threw
        /\ (FailsAt(curvePoint.cqf) \/ FailsAt(curvePoint.cpf)) =>
              curveSteps.quantumSteps = QuantumSentinel
        /\ (FailsAt(curvePoint.cqfc) \/ FailsAt(curvePoint.cpf)) =>
              curveSteps.quantumCostSteps = QuantumSentinel
        /\ FailsAt(curvePoint.ccf) => curveSteps.classicalSteps = ClassicalSentinel
        /\ FailsAt(curvePoint.ccfc) => curveSteps.classicalCostSteps = ClassicalSentinel

====
